---- MODULE Spec2Model ----
(***************************************************************************)
(* Amazon List Sidebar: the DOM-automation core of the content script      *)
(* (src/content.js) and of the site-interaction library                    *)
(* (src/lib/site-interaction.js).                                          *)
(*                                                                         *)
(* The module holds several state machines over one set of variables:      *)
(*   SpecRetry    RetryManager.retry, both implementations                 *)
(*   SpecConfirm  the confirmation wait, both implementations              *)
(*   SpecExtract  extractListsFromDropdown and the list-update timer       *)
(*   Spec         REQUEST_LISTS messages (openListDropdownAndWait)         *)
(*   SpecAdd      ADD_TO_LIST messages (handleAddToListAction)             *)
(*   SpecCreate   CREATE_LIST messages (createNewList)                     *)
(*   SpecWait     ElementFinder.waitFor, both implementations              *)
(*   SpecPar      two ADD_TO_LIST messages sent by the sidebar to one page *)
(*   SpecFind     ElementFinder.find, both implementations                 *)
(*   SpecClick    EventSimulator.click, both implementations               *)
(*   SpecFilter   FilterPersistence and the filter handling of the flows   *)
(*   SpecSettings loadSettings and the storage change listener             *)
(*   FairSpec, FairSpecAdd, FairSpecWait: the same with the event loop's   *)
(*   fairness                                                              *)
(* A machine leaves the variables of the others unchanged.                 *)
(***************************************************************************)
EXTENDS Integers, Sequences, FiniteSets, TLC

VARIABLES
  \* ---- RetryManager.retry
  rImpl,      \* "content" (src/content.js) or "lib" (src/lib/site-interaction.js)
  rCfg,       \* constructor options and call options of this retry call
  rOp,        \* the operation: index of its first successful invocation (0: never)
  rVeto,      \* options.shouldRetry: the attempt at which it returns false (0: never)
  rPc,        \* "call" | "wait" | "resolved" | "rejected"
  rAttempt,   \* the loop variable `attempt`
  rArgs,      \* the attempt indices the operation was invoked with, in order
  rWaits,     \* the delays waited between attempts, in order
  rResult     \* the value resolved with or the error rejected with

retryVars == <<rImpl, rCfg, rOp, rVeto, rPc, rAttempt, rArgs, rWaits, rResult>>

VARIABLES
  \* ---- the confirmation wait (waitForAddConfirmation / ConfirmationDetector.detect)
  cImpl,      \* "content" or "lib"
  cPc,        \* "idle" before the call, "started" after its executor ran
  cText,      \* the success predicate holds of the document now
  cPending,   \* mutation records are queued for the wait's observer
  cObserver,  \* the wait's MutationObserver is observing
  cInterval,  \* the library's polling interval is active
  cTimer,     \* the timeout timer: "none" | "armed" | "fired"
  cElapsed,   \* Date.now() - start >= timeout
  cSettled,   \* the promise has settled
  cResult,    \* the value it settled with
  cEverText,  \* history: the predicate held between two tasks before the deadline
  cLateText,  \* history: it held between two tasks after the deadline
  cLateChecks \* history: check() runs after settlement (saturating)

confirmVars == <<cImpl, cPc, cText, cPending, cObserver, cInterval, cTimer,
                 cElapsed, cSettled, cResult, cEverText, cLateText, cLateChecks>>

VARIABLES
  \* ---- extraction of the collection records
  xDom,            \* the spans of the overlay subtree, in document order
  userLists,       \* this.userLists
  sendListsTimer,  \* this.sendListsTimer is pending
  xLists,          \* the records the last ExtractCall produced (its local `lists`)
  xThrew,          \* the last ExtractCall threw
  xCalls,          \* extractions run so far
  xSent            \* the lists of the last UPDATE_LISTS message sent (<<>>: none)

extractVars == <<xDom, userLists, sendListsTimer, xLists, xThrew, xCalls, xSent>>

VARIABLES
  \* ---- the page, as the message flows read it
  shown,          \* the overlay elements that match their selector now:
                  \*   "pop"   .a-popover[aria-hidden="false"]
                  \*   "inner" #atwl-popover-inner
                  \*   "dd"    .a-dropdown[aria-hidden="false"]
  innerFirst,     \* #atwl-popover-inner precedes the .a-popover in document order
  storedFilter,   \* sessionStorage['als_list_filter'] ("" when absent)
  inputVal,       \* value of the overlay's search input ("none": no input)
  persist,        \* this.persistDropdownSearch
  \* ---- the message flow in progress
  msg,            \* type of the message being handled ("none" before the first)
  msgCount,       \* messages received so far
  pc,             \* position of the flow
  attempt,        \* attempt index of the RetryManager.retry around the flow
  iClick,         \* loop variable i of a click-repeat loop
  elapsed,        \* Date.now() - startTime against the timeout: "lt" | "eq" | "gt"
  popover,        \* the overlay node held by the flow ("none": none)
  err,            \* the error being thrown
  response,       \* the response of the last handler that finished
  \* ---- history
  steps,          \* the steps of the current attempt, in order
  openClicks,     \* trigger clicks of the current (or last) open call
  everClicked,    \* a collection link was clicked in this ADD_TO_LIST
  confirmedOk,    \* the confirmation wait of the current attempt returned true
  prevNode,       \* the node the previous REQUEST_LISTS open call returned
  untouched,      \* the host has not changed the overlay since then
  everShown,      \* an overlay element matched during this ADD_TO_LIST
  submitClicks,   \* clicks on the create button in this CREATE_LIST
  btnSeen,        \* what the open call in progress found when it looked for
                  \* the trigger: "none" (not looked) | "found" | "missing"
  missedFirst,    \* the first attempt of this ADD_TO_LIST found no link
  navigated,      \* the item of the page changed while this ADD_TO_LIST ran
  itemPage,       \* what detectProductPage() gave the handler of this message
  nameStuck       \* the last verification of createNewList found the name
                  \* input holding the requested name

pageVars == <<shown, innerFirst, storedFilter, inputVal, persist>>
ctlVars == <<msg, msgCount, pc, attempt, iClick, elapsed, popover, err, response>>
histVars == <<steps, openClicks, everClicked, confirmedOk,
              prevNode, untouched, everShown, submitClicks, btnSeen,
              missedFirst, navigated, itemPage, nameStuck>>
flowVars == <<pageVars, ctlVars, histVars>>

VARIABLES
  \* ---- ElementFinder.waitFor
  wImpl,      \* "content" or "lib"
  wPc,        \* "idle" before the call, "started" after its executor ran
  wNode,      \* what find() gives now: "none" (no node), "unfit" (a node that
              \* fails the condition) or "fit" (a node that satisfies it)
  wPending,   \* mutation records are queued for the call's observer
  wObserver,  \* the call's MutationObserver is observing
  wTimer,     \* the timeout timer: "none" | "armed" | "fired"
  wElapsed,   \* Date.now() - start >= timeout
  wState,     \* the promise: "pending" | "resolved" | "rejected"
  wEvals,     \* history: runs of check() so far (saturating)
  wHit        \* history: a run of check() found a node

waitVars == <<wImpl, wPc, wNode, wPending, wObserver, wTimer, wElapsed, wState,
              wEvals, wHit>>

VARIABLES
  \* ---- two ADD_TO_LIST requests of the sidebar to one page
  fPc,           \* per request: "idle" (not sent) | "open" (in
                 \* openListDropdownAndWait) | "confirm" (in
                 \* waitForAddConfirmation) | "wait" (in the retry delay) | "done"
  fAttempt,      \* per request: attempt index of its RetryManager.retry
  fResult,       \* per request: "none" | "success" | "failure"
  fConfirmedBy,  \* history, per request: the request whose click the success
                 \* text answered that its confirmation wait matched (0: none)
  docText,       \* the request whose click the success text in the document
                 \* answers (0: no success text)
  pendingClicks  \* requests whose click on a link the page has not answered

parVars == <<fPc, fAttempt, fResult, fConfirmedBy, docText, pendingClicks>>

VARIABLES
  \* ---- ElementFinder.find
  fnImpl,      \* "content" or "lib"
  fnUseXPath,  \* this.useXPath of the library's finder
  fnSelectors, \* selectorMap[elementType]: the strategies in configured order;
               \* of each, whether it is an `xpath:` selector, and what its
               \* evaluation in the container gives: "invalid" (the engine
               \* throws), "none" (no node) or a node
  fnPc,        \* "call" | "returned" | "threw"
  fnResult     \* the value find returned ("none": null)

findVars == <<fnImpl, fnUseXPath, fnSelectors, fnPc, fnResult>>

VARIABLES
  \* ---- EventSimulator.click
  kImpl,     \* "content" or "lib"
  kNode,     \* the element passed is not null
  kRuntime,  \* typeof PointerEvent === 'function'
  kOpts,     \* the library's options: usePointerEvents, simulateHover,
             \* scroll (options.scrollIntoView !== false), delayed (delay > 0)
  kFault,    \* the step that throws: "none", "scroll" or an event type (the
             \* dispatch of that event throws)
  kPc,       \* "call" | "timer" (the library's delayed _performClick is
             \* pending) | "done"
  kReturn,   \* what click gave its caller: "none" (not yet) | "true" |
             \* "false" | "threw"
  kScrolled, \* scrollIntoView was called and returned
  kEvents    \* the events dispatched on the node, in order

clickVars == <<kImpl, kNode, kRuntime, kOpts, kFault, kPc, kReturn, kScrolled,
               kEvents>>

VARIABLES
  \* ---- FilterPersistence and the flows that use it
  fpAvail,    \* sessionStorage can be used (FALSE: every access throws)
  fpSlot,     \* sessionStorage['als_list_filter'] ("none": no item)
  fpInput,    \* value of the overlay's search input ("none": no input)
  fpListener, \* the input carries the listener that saves its value
  fpPersist,  \* this.persistDropdownSearch
  fpMsg,      \* the message being handled ("none": none)
  fpPc,       \* "idle" | "opening" (in openListDropdownAndWait) | "opened"
              \* (it returned) | "confirm" | "retry"
  fpAttempt,  \* attempt index of the RetryManager.retry around the add
  fpFlows,    \* messages received so far
  fpOpenRes,  \* how the last open call ended: "none" | "existing" (fast
              \* path) | "opened" | "failed"
  fpOp,       \* history: the last FilterPersistence method called
  fpLast,     \* history: the argument of the most recent save ("" after a
              \* clear and when nothing was saved)
  fpRet,      \* what the last restore() returned
  fpThrew     \* history: a FilterPersistence method threw

filterVars == <<fpAvail, fpSlot, fpInput, fpListener, fpPersist, fpMsg, fpPc,
                fpAttempt, fpFlows, fpOpenRes, fpOp, fpLast, fpRet, fpThrew>>

VARIABLES
  \* ---- the persistDropdownSearch setting
  sStored,   \* storage.sync['persistDropdownSearch']: "true", "false" or
             \* "absent"
  sMem,      \* this.persistDropdownSearch of the content script
  sLoad,     \* the get of loadSettings: "idle" | "sent" | "replied" (its
             \* answer is on its way) | "failed" (its rejection is on its
             \* way) | "done"
  sReply,    \* the value the answer carries
  sEvents,   \* the change notifications on their way to the content script,
             \* oldest first (each the newValue)
  sToggles,  \* changes of the toggle in the sidebar so far
  sUsed      \* history: the setting the last add flow read ("none": none)

settingsVars == <<sStored, sMem, sLoad, sReply, sEvents, sToggles, sUsed>>

VARIABLES
  \* ---- the create-list form of the sidebar
  cfName,      \* value of the name input
  cfLists,     \* names of the lists in this.allLists
  cfShown,     \* the form is shown (the create button is hidden)
  cfDisabled,  \* the disabled flags of the submit, cancel and name controls
  cfPc,        \* per run of the submit handler: "idle" (not run) | "returned"
               \* (refused the name) | "query" (awaiting tabs.query) | "sent"
               \* (awaiting the response of CREATE_LIST) | "done"
  cfListName,  \* per run: its local listName
  cfSent,      \* the listName of the CREATE_LIST messages sent, in order
  cfRuns,      \* runs of the submit handler so far
  cfFeedback   \* type of the feedback shown last
formVars == <<cfName, cfLists, cfShown, cfDisabled, cfPc, cfListName, cfSent,
              cfRuns, cfFeedback>>

VARIABLES
  \* ---- the debounced list update
  dbTimer,     \* this.sendListsTimer is not null
  dbPending,   \* list-update timers set and neither cleared nor fired
  dbLists,     \* this.userLists
  dbInfo,      \* this.productInfo
  dbScheduled, \* extraction timers of interceptListData that are pending
  dbMsgs,      \* the UPDATE_LISTS messages sent, in order
  dbWindows,   \* history: calls of queueSendListsUpdate that found
               \* this.sendListsTimer null
  dbExtracts   \* extractions run so far
debounceVars == <<dbTimer, dbPending, dbLists, dbInfo, dbScheduled, dbMsgs,
                  dbWindows, dbExtracts>>

VARIABLES
  \* ---- the background script
  bgLegacyLists,  \* storedLists of the first onMessage listener
  bgLegacyInfo,   \* storedProductInfo of the first onMessage listener
  bgLists,        \* coordinator.storedLists
  bgInfo,         \* coordinator.storedProductInfo
  bgMsg,          \* the message received last, with its sender
  bgReply,        \* the response its sender received
  bgBroadcasts,   \* messages sent on with runtime.sendMessage so far
  bgLastCast,     \* the last of them
  bgCount,        \* messages received so far
  bgTrusted       \* history: the lists and product infos taken from UPDATE
                  \* messages that pass validateMessage
bgVars == <<bgLegacyLists, bgLegacyInfo, bgLists, bgInfo, bgMsg, bgReply,
            bgBroadcasts, bgLastCast, bgCount, bgTrusted>>

VARIABLES
  \* ---- QuickAccessManager (recently used lists of the sidebar)
  qaHasStored, \* an array is stored under the storage key
  qaStored,    \* that array
  qaItems,     \* this.items
  qaPc,        \* "new" | "loading" (load awaits storage.get) | "ready"
  qaBase,      \* history: this.items when load returned
  qaHistory,   \* history: the ids added since, in order
  qaEarly      \* history: add ran before load had returned
quickVars == <<qaHasStored, qaStored, qaItems, qaPc, qaBase, qaHistory, qaEarly>>

vars == <<retryVars, confirmVars, extractVars, flowVars, waitVars, parVars, findVars, clickVars, filterVars, settingsVars, formVars, debounceVars, bgVars, quickVars>>

\* what each machine leaves unchanged
notRetry == <<confirmVars, extractVars, flowVars, waitVars, parVars, findVars, clickVars, filterVars, settingsVars, formVars, debounceVars, bgVars, quickVars>>
notConfirm == <<retryVars, extractVars, flowVars, waitVars, parVars, findVars, clickVars, filterVars, settingsVars, formVars, debounceVars, bgVars, quickVars>>
notExtract == <<retryVars, confirmVars, flowVars, waitVars, parVars, findVars, clickVars, filterVars, settingsVars, formVars, debounceVars, bgVars, quickVars>>
notFlow == <<retryVars, confirmVars, waitVars, parVars, findVars, clickVars, filterVars, settingsVars, formVars, debounceVars, bgVars, quickVars>>
notWait == <<retryVars, confirmVars, extractVars, flowVars, parVars, findVars, clickVars, filterVars, settingsVars, formVars, debounceVars, bgVars, quickVars>>
notPar == <<retryVars, confirmVars, extractVars, flowVars, waitVars, findVars, clickVars, filterVars, settingsVars, formVars, debounceVars, bgVars, quickVars>>
notFind == <<retryVars, confirmVars, extractVars, flowVars, waitVars, parVars, clickVars, filterVars, settingsVars, formVars, debounceVars, bgVars, quickVars>>
notClick == <<retryVars, confirmVars, extractVars, flowVars, waitVars, parVars, findVars, filterVars, settingsVars, formVars, debounceVars, bgVars, quickVars>>
notFilter == <<retryVars, confirmVars, extractVars, flowVars, waitVars, parVars, findVars, clickVars, settingsVars, formVars, debounceVars, bgVars, quickVars>>
notSettings == <<retryVars, confirmVars, extractVars, flowVars, waitVars, parVars, findVars, clickVars, filterVars, formVars, debounceVars, bgVars, quickVars>>
notForm == <<retryVars, confirmVars, extractVars, flowVars, waitVars, parVars, findVars, clickVars, filterVars, settingsVars, debounceVars, bgVars, quickVars>>
notDebounce == <<retryVars, confirmVars, extractVars, flowVars, waitVars, parVars, findVars, clickVars, filterVars, settingsVars, formVars, bgVars, quickVars>>
notBg == <<retryVars, confirmVars, extractVars, flowVars, waitVars, parVars, findVars, clickVars, filterVars, settingsVars, formVars, debounceVars, quickVars>>
notQuick == <<retryVars, confirmVars, extractVars, flowVars, waitVars, parVars, findVars, clickVars, filterVars, settingsVars, formVars, debounceVars, bgVars>>

(***************************************************************************)
(* Bounds of the model.                                                    *)
(***************************************************************************)
MaxRetryAttempts == 4     \* largest maxAttempts option tried
MaxLateChecks == 2        \* check() runs counted after a wait has settled
MaxNodes == 2             \* spans in an overlay subtree
MaxExtractCalls == 2      \* extractions in one run of the extraction machine
MaxMessages == 2          \* REQUEST_LISTS messages handled one after the other
MaxAdds == 1              \* ADD_TO_LIST messages handled one after the other
MaxAny == 1               \* messages of any type handled one after the other
MaxCreates == 1           \* CREATE_LIST messages handled one after the other
MaxWaitEvals == 2         \* check() runs of a waitFor call that are counted
MaxSelectors == 2         \* strategies configured for one element type
MaxFilterFlows == 2       \* messages handled in one run of the filter machine
MaxSubmits == 2           \* runs of the submit handler of the create-list form
MaxNameLen == 2           \* characters of the name typed into the form
MaxDebounceExtracts == 3  \* extractions that feed the debounced list update
MaxBgMessages == 2        \* messages the background script receives
MaxQuickAdds == 3         \* add operations of QuickAccessManager
MaxToggles == 3           \* changes of the setting made in the sidebar

Min(a, b) == IF a <= b THEN a ELSE b

RECURSIVE Pow(_, _)
Pow(b, e) == IF e = 0 THEN 1 ELSE b * Pow(b, e - 1)

(***************************************************************************)
(* The state of a machine that is not running.                             *)
(***************************************************************************)
RetryIdle ==
  /\ rImpl = "content"
  /\ rCfg = [ctorMaxAttempts |-> 0, optMaxAttempts |-> 0, ctorBaseDelay |-> 0,
             optBaseDelay |-> 0, ctorMaxDelay |-> 0, optMaxDelay |-> 0,
             ctorBackoffMultiplier |-> [num |-> 0, den |-> 1],
             optBackoffMultiplier |-> [num |-> 0, den |-> 1],
             useExponentialBackoff |-> TRUE]
  /\ rOp = 0
  /\ rVeto = 0
  /\ rPc = "idle"
  /\ rAttempt = 0
  /\ rArgs = <<>>
  /\ rWaits = <<>>
  /\ rResult = <<>>

ConfirmIdle ==
  /\ cImpl = "content"
  /\ cPc = "idle"
  /\ cText = FALSE
  /\ cPending = FALSE
  /\ cObserver = FALSE
  /\ cInterval = FALSE
  /\ cTimer = "none"
  /\ cElapsed = FALSE
  /\ cSettled = FALSE
  /\ cResult = FALSE
  /\ cEverText = FALSE
  /\ cLateText = FALSE
  /\ cLateChecks = 0

ExtractIdle ==
  /\ xDom = <<>>
  /\ userLists = <<>>
  /\ sendListsTimer = FALSE
  /\ xLists = <<>>
  /\ xThrew = FALSE
  /\ xCalls = 0
  /\ xSent = <<>>

WaitIdle ==
  /\ wImpl = "content"
  /\ wPc = "idle"
  /\ wNode = "none"
  /\ wPending = FALSE
  /\ wObserver = FALSE
  /\ wTimer = "none"
  /\ wElapsed = FALSE
  /\ wState = "pending"
  /\ wEvals = 0
  /\ wHit = FALSE

Flows == {1, 2}

ParIdle ==
  /\ fPc = [f \in Flows |-> "idle"]
  /\ fAttempt = [f \in Flows |-> 0]
  /\ fResult = [f \in Flows |-> "none"]
  /\ fConfirmedBy = [f \in Flows |-> 0]
  /\ docText = 0
  /\ pendingClicks = {}

FindIdle ==
  /\ fnImpl = "content"
  /\ fnUseXPath = TRUE
  /\ fnSelectors = <<>>
  /\ fnPc = "idle"
  /\ fnResult = "none"

ClickIdle ==
  /\ kImpl = "content"
  /\ kNode = FALSE
  /\ kRuntime = FALSE
  /\ kOpts = [usePointerEvents |-> TRUE, simulateHover |-> TRUE,
              scroll |-> TRUE, delayed |-> FALSE]
  /\ kFault = "none"
  /\ kPc = "idle"
  /\ kReturn = "none"
  /\ kScrolled = FALSE
  /\ kEvents = <<>>

FilterIdle ==
  /\ fpAvail = TRUE
  /\ fpSlot = "none"
  /\ fpInput = "none"
  /\ fpListener = FALSE
  /\ fpPersist = TRUE
  /\ fpMsg = "none"
  /\ fpPc = "idle"
  /\ fpAttempt = 0
  /\ fpFlows = 0
  /\ fpOpenRes = "none"
  /\ fpOp = "none"
  /\ fpLast = ""
  /\ fpRet = ""
  /\ fpThrew = FALSE

SettingsIdle ==
  /\ sStored = "absent"
  /\ sMem = "true"
  /\ sLoad = "idle"
  /\ sReply = "absent"
  /\ sEvents = <<>>
  /\ sToggles = 0
  /\ sUsed = "none"

FormIdle ==
  /\ cfName = <<>>
  /\ cfLists = {}
  /\ cfShown = FALSE
  /\ cfDisabled = [submit |-> FALSE, cancel |-> FALSE, name |-> FALSE]
  /\ cfPc = <<>>
  /\ cfListName = <<>>
  /\ cfSent = <<>>
  /\ cfRuns = 0
  /\ cfFeedback = "none"

DebounceIdle ==
  /\ dbTimer = FALSE
  /\ dbPending = 0
  /\ dbLists = <<>>
  /\ dbInfo = "p1"
  /\ dbScheduled = 0
  /\ dbMsgs = <<>>
  /\ dbWindows = 0
  /\ dbExtracts = 0

BgIdle ==
  /\ bgLegacyLists = "empty"
  /\ bgLegacyInfo = "null"
  /\ bgLists = "empty"
  /\ bgInfo = "null"
  /\ bgMsg = [type |-> "none"]
  /\ bgReply = [kind |-> "none"]
  /\ bgBroadcasts = 0
  /\ bgLastCast = [type |-> "none"]
  /\ bgCount = 0
  /\ bgTrusted = {}

QuickIdle ==
  /\ qaHasStored = FALSE
  /\ qaStored = <<>>
  /\ qaItems = <<>>
  /\ qaPc = "new"
  /\ qaBase = <<>>
  /\ qaHistory = <<>>
  /\ qaEarly = FALSE

FlowIdle ==
  /\ shown = {}
  /\ innerFirst = FALSE
  /\ storedFilter = ""
  /\ inputVal = "none"
  /\ persist = TRUE
  /\ msg = "none"
  /\ msgCount = 0
  /\ pc = "idle"
  /\ attempt = 0
  /\ iClick = 0
  /\ elapsed = "lt"
  /\ popover = "none"
  /\ err = "none"
  /\ response = [type |-> "none"]
  /\ steps = <<>>
  /\ openClicks = 0
  /\ everClicked = FALSE
  /\ confirmedOk = FALSE
  /\ prevNode = "none"
  /\ untouched = FALSE
  /\ everShown = FALSE
  /\ submitClicks = 0
  /\ btnSeen = "none"
  /\ missedFirst = FALSE
  /\ navigated = FALSE
  /\ itemPage = FALSE
  /\ nameStuck = FALSE

(***************************************************************************)
(* RetryManager                                                            *)
(***************************************************************************)
DefaultMaxAttempts == 3
DefaultBaseDelay == 1000
DefaultMaxDelay == 30000
DefaultBackoffMultiplier == 2

\* `a || b` on numbers: a falsy (0 or absent, both written 0) gives b.
OrElse(a, b) == IF a # 0 THEN a ELSE b

\* constructor: this.maxAttempts = options.maxAttempts || 3
CtorMaxAttempts == OrElse(rCfg.ctorMaxAttempts, DefaultMaxAttempts)
\* constructor: this.baseDelay = options.baseDelay || 1000
CtorBaseDelay == OrElse(rCfg.ctorBaseDelay, DefaultBaseDelay)
\* constructor: this.maxDelay = options.maxDelay || 30000
CtorMaxDelay == OrElse(rCfg.ctorMaxDelay, DefaultMaxDelay)

\* A multiplier is a ratio num/den, so that a multiplier below one can be
\* written; `a || b` on a multiplier: 0 (or absent, written 0/1) gives b.
NoMultiplier == [num |-> 0, den |-> 1]
MultiplierOrElse(a, b) == IF a.num # 0 THEN a ELSE b
\* constructor: this.backoffMultiplier = options.backoffMultiplier || 2
CtorBackoffMultiplier ==
  MultiplierOrElse(rCfg.ctorBackoffMultiplier,
                   [num |-> DefaultBackoffMultiplier, den |-> 1])

\* retry: const maxAttempts = options.maxAttempts || this.maxAttempts
RetryMaxAttempts == OrElse(rCfg.optMaxAttempts, CtorMaxAttempts)

\* The operation under retry: invocation n returns a value or throws.
OpSucceeds(n) == rOp # 0 /\ n >= rOp
OpValue(n) == <<"value", n>>
OpError(n) == <<"error", n>>

\* the shouldRetry callback the caller passes returns false from attempt rVeto
\* on (rVeto = 0: the caller passes none)
Vetoes(n) == rVeto # 0 /\ n >= rVeto

AlwaysRetries(n) == TRUE

\* options.shouldRetry || (() => true); the inlined RetryManager has none.
ShouldRetry(n) == ~(rImpl = "lib" /\ Vetoes(n))

Uncapped(delay, maxDelay) == delay

\* Math.min(delay, options.maxDelay || this.maxDelay)
Capped(delay, maxDelay) == Min(delay, maxDelay)

\* _calculateDelay(attempt, options) of the library.  The base delays and
\* multipliers drawn below make baseDelay * multiplier^(attempt-1) a whole
\* number, so the division is exact.
CalculateDelay(n) ==
  LET baseDelay == OrElse(rCfg.optBaseDelay, CtorBaseDelay)
      multiplier == MultiplierOrElse(rCfg.optBackoffMultiplier,
                                     CtorBackoffMultiplier)
      delay == (baseDelay * Pow(multiplier.num, n - 1))
                 \div Pow(multiplier.den, n - 1)
  IN  IF ~rCfg.useExponentialBackoff
      THEN baseDelay
      ELSE Capped(delay, OrElse(rCfg.optMaxDelay, CtorMaxDelay))

\* the inlined RetryManager: setTimeout(r, options.baseDelay || this.baseDelay)
InlinedDelay(n) == OrElse(rCfg.optBaseDelay, CtorBaseDelay)

\* the delay waited after failed attempt n
RetryDelay(n) ==
  IF rImpl = "lib"
  THEN CalculateDelay(n)
  ELSE InlinedDelay(n)

GivesUpEarly(n, maxAttempts) == n >= maxAttempts - 1

GivesUpLate(n, maxAttempts) == n = maxAttempts + 1

\* `attempt === maxAttempts`: the failure is thrown without a further delay
GivesUp(n, maxAttempts) == n = maxAttempts

RetryCfgs ==
  [ctorMaxAttempts : {0, 2}, optMaxAttempts : 0..MaxRetryAttempts,
   ctorBaseDelay : {0}, optBaseDelay : {0, 200},
   ctorMaxDelay : {0}, optMaxDelay : {0, 500},
   ctorBackoffMultiplier : {NoMultiplier},
   optBackoffMultiplier : {NoMultiplier, [num |-> 1, den |-> 2],
                           [num |-> 1, den |-> 1], [num |-> 3, den |-> 1]},
   useExponentialBackoff : BOOLEAN]

\* cfg fields the inlined RetryManager does not read are left at their defaults
RetryInputOk(impl, cfg, veto) ==
  impl = "content" =>
    /\ veto = 0
    /\ cfg.optMaxDelay = 0
    /\ cfg.optBackoffMultiplier = NoMultiplier
    /\ cfg.useExponentialBackoff

RetryInit ==
  /\ FlowIdle
  /\ ConfirmIdle
  /\ ExtractIdle
  /\ WaitIdle
  /\ ParIdle
  /\ QuickIdle
  /\ BgIdle
  /\ DebounceIdle
  /\ FormIdle
  /\ SettingsIdle
  /\ FilterIdle
  /\ ClickIdle
  /\ FindIdle
  /\ rImpl \in {"content", "lib"}
  /\ rCfg \in RetryCfgs
  /\ rOp \in 0..(MaxRetryAttempts + 1)
  /\ rVeto \in 0..MaxRetryAttempts
  /\ RetryInputOk(rImpl, rCfg, rVeto)
  /\ rPc = "call"
  /\ rAttempt = 1          \* for (let attempt = 1; ...
  /\ rArgs = <<>>
  /\ rWaits = <<>>
  /\ rResult = <<>>

\* one pass of the loop body: await operation(attempt), then the catch block
RetryInvoke ==
  /\ rPc = "call"
  /\ rAttempt <= RetryMaxAttempts
  /\ rArgs' = Append(rArgs, rAttempt)
  /\ IF OpSucceeds(Len(rArgs) + 1)
     THEN /\ rPc' = "resolved"
          /\ rResult' = OpValue(Len(rArgs) + 1)
          /\ UNCHANGED rWaits
     ELSE IF GivesUp(rAttempt, RetryMaxAttempts) \/ ~ShouldRetry(rAttempt)
     THEN /\ rPc' = "rejected"
          /\ rResult' = OpError(Len(rArgs) + 1)
          /\ UNCHANGED rWaits
     ELSE /\ rPc' = "wait"
          /\ rWaits' = Append(rWaits, RetryDelay(rAttempt))
          /\ UNCHANGED rResult
  /\ UNCHANGED <<rImpl, rCfg, rOp, rVeto, rAttempt>>
  /\ UNCHANGED notRetry

\* the inter-attempt timer fires: attempt++
RetryWake ==
  /\ rPc = "wait"
  /\ rAttempt' = rAttempt + 1
  /\ rPc' = "call"
  /\ UNCHANGED <<rImpl, rCfg, rOp, rVeto, rArgs, rWaits, rResult>>
  /\ UNCHANGED notRetry

RetryNext == RetryInvoke \/ RetryWake

SpecRetry == RetryInit /\ [][RetryNext]_vars

RetrySettled == rPc \in {"resolved", "rejected"}

\* shouldRetry never refuses a retry the call would otherwise make
NoVeto ==
  \A n \in 1..(RetryMaxAttempts - 1) : (~OpSucceeds(n)) => ShouldRetry(n)

RetryContract ==
  IF rOp \in 1..RetryMaxAttempts
  THEN rPc = "resolved" /\ rResult = OpValue(rOp) /\ rArgs = [n \in 1..rOp |-> n]
  ELSE /\ rPc = "rejected"
       /\ rResult = OpError(RetryMaxAttempts)
       /\ rArgs = [n \in 1..RetryMaxAttempts |-> n]

\* C1 (as stated): once retry has settled, an operation that first succeeds on
\* invocation k <= maxAttempts was invoked exactly k times and retry resolved
\* with that value; an operation that fails throughout was invoked exactly
\* maxAttempts times and retry rejected with the last invocation's error.
C1_AsStated == RetrySettled => RetryContract

\* C1 (amended): the same, for the inlined RetryManager and for the library's
\* when shouldRetry is absent or returns true for every failure before the
\* last attempt.
C1_RetryContract == (RetrySettled /\ NoVeto) => RetryContract

C1_Witness ==
  /\ rImpl = "lib" /\ rPc = "resolved" /\ Len(rArgs) = 3
  /\ rCfg.optMaxAttempts = 0 /\ rCfg.ctorMaxAttempts = 0

\* the caller passes only what the inlined RetryManager reads (maxAttempts and
\* baseDelay) and no shouldRetry
SharedOptions == rVeto = 0 /\ RetryInputOk("content", rCfg, rVeto)

\* C40: given the same operation, maxAttempts and baseDelay, and the default
\* shouldRetry, the inlined RetryManager and the library RetryManager invoke
\* the operation the same number of times with the same attempt indices,
\* settle with the same value or error, and wait the same delay between
\* attempts: every run of either waits, after each failed attempt, the delay
\* the inlined RetryManager waits.
C40_RetryManagersEquivalent ==
  SharedOptions =>
    /\ RetrySettled => RetryContract
    /\ \A n \in 1..Len(rWaits) : rWaits[n] = InlinedDelay(n)

\* C19: retry waits a delay only after a failure that is neither on the last
\* attempt nor refused by shouldRetry; a rejected retry rejected with the
\* error of its last invocation, on the last attempt or on a refusal, having
\* waited no delay after that invocation, and invokes and waits no more.
C19_FailsFast ==
  /\ [](rPc = "wait" => (rAttempt < RetryMaxAttempts /\ ~Vetoes(rAttempt)))
  /\ [](rPc = "rejected" =>
          /\ rAttempt = RetryMaxAttempts \/ Vetoes(rAttempt)
          /\ rResult = OpError(Len(rArgs))
          /\ rArgs[Len(rArgs)] = rAttempt
          /\ Len(rWaits) = Len(rArgs) - 1)
  /\ [][rPc = "rejected" => (rArgs' = rArgs /\ rWaits' = rWaits)]_vars

\* shouldRetry refused after the second failure, before the last attempt
C19_Witness ==
  /\ rImpl = "lib" /\ rPc = "rejected" /\ rVeto = 2 /\ RetryMaxAttempts = 4
  /\ Len(rArgs) = 2 /\ Len(rWaits) = 1

\* the configuration _calculateDelay reads
BackoffEnabled == rImpl = "lib" /\ rCfg.useExponentialBackoff
BaseDelay == OrElse(rCfg.optBaseDelay, CtorBaseDelay)
MaxDelay == OrElse(rCfg.optMaxDelay, CtorMaxDelay)
BackoffMultiplier ==
  MultiplierOrElse(rCfg.optBackoffMultiplier, CtorBackoffMultiplier)

\* baseDelay * multiplier^(n-1) = d, over whole numbers
IsPower(d, n) ==
  d * Pow(BackoffMultiplier.den, n - 1)
    = BaseDelay * Pow(BackoffMultiplier.num, n - 1)

DelayAsStated(n) ==
  IF ~BackoffEnabled
  THEN rWaits[n] = BaseDelay
  ELSE /\ rWaits[n] <= MaxDelay
       /\ rWaits[n] = MaxDelay \/ IsPower(rWaits[n], n)
       /\ IsPower(rWaits[n], n) \/
            \E d \in (MaxDelay + 1)..(BaseDelay * Pow(BackoffMultiplier.num, n - 1)) :
              IsPower(d, n)

NonDecreasing ==
  \A n \in 2..Len(rWaits) : rWaits[n - 1] <= rWaits[n]

\* C20 (as stated): the delay waited after failed attempt n is baseDelay
\* without backoff and min(baseDelay * multiplier^(n-1), maxDelay) with it;
\* with backoff the delays never exceed maxDelay and are non-decreasing in n.
C20_AsStated ==
  /\ \A n \in 1..Len(rWaits) : DelayAsStated(n)
  /\ BackoffEnabled => NonDecreasing

\* C20 (amended): the same, the delays being non-decreasing when the
\* multiplier is at least one.
C20_Delays ==
  /\ \A n \in 1..Len(rWaits) : DelayAsStated(n)
  /\ (BackoffEnabled /\ BackoffMultiplier.num >= BackoffMultiplier.den)
       => NonDecreasing

\* three delays of a backoff by 3, the last two capped
C20_Witness ==
  /\ rImpl = "lib" /\ rCfg.useExponentialBackoff
  /\ rCfg.optBackoffMultiplier = [num |-> 3, den |-> 1]
  /\ rWaits = <<200, 500, 500>>

(***************************************************************************)
(* The confirmation wait.  The page and the content script share one       *)
(* event loop: the document is observed between tasks, and a mutation      *)
(* record queued by a task is delivered (as a microtask) before the next   *)
(* task runs.                                                              *)
(***************************************************************************)
ConfirmInit ==
  /\ FlowIdle
  /\ RetryIdle
  /\ ExtractIdle
  /\ WaitIdle
  /\ ParIdle
  /\ QuickIdle
  /\ BgIdle
  /\ DebounceIdle
  /\ FormIdle
  /\ SettingsIdle
  /\ FilterIdle
  /\ ClickIdle
  /\ FindIdle
  /\ cImpl \in {"content", "lib"}
  /\ cPc = "idle"
  /\ cText \in BOOLEAN        \* text left in the document by an earlier action
  /\ cPending = FALSE
  /\ cObserver = FALSE
  /\ cInterval = FALSE
  /\ cTimer = "none"
  /\ cElapsed = FALSE
  /\ cSettled = FALSE
  /\ cResult = FALSE
  /\ cEverText = FALSE
  /\ cLateText = FALSE
  /\ cLateChecks = 0

ObserverMissesMutation(observing) == FALSE

\* observer.observe(document.body, {childList, subtree, attributes,
\* characterData}): a mutation under the body queues a record while observing
QueuesRecord(observing) == observing

\* check(): the success predicate first, the elapsed clock second.
\* "true" / "false": the value check() settles with; "none": it returns.
CheckVerdict ==
  IF cText THEN "true" ELSE IF cElapsed THEN "false" ELSE "none"

\* resolve(v) / done(v) reached with verdict v: the first one settles
Settle(v) ==
  IF cSettled \/ v = "none"
  THEN UNCHANGED <<cSettled, cResult>>
  ELSE cSettled' = TRUE /\ cResult' = (v = "true")

\* done() of the library tears the observer and the interval down, once;
\* resolve() of the content script tears nothing down
TeardownOnSettle(v) ==
  IF cImpl = "lib" /\ ~cSettled /\ v # "none"
  THEN cObserver' = FALSE /\ cInterval' = FALSE /\ cPending' = FALSE
  ELSE UNCHANGED <<cObserver, cInterval>> /\ cPending' = FALSE

CountLateCheck ==
  cLateChecks' = IF cSettled THEN Min(cLateChecks + 1, MaxLateChecks)
                 ELSE cLateChecks

\* The executor of the promise.
\*   content: observer.observe(...); check(); setTimeout(...)
\*   lib:     check(); observer = new MutationObserver; observer.observe(...);
\*            setInterval(check); setTimeout(...)
\* In the library `observer` and `intervalId` are still undefined when the
\* first check() reaches done(), so they are started after it either way.
ConfirmStart ==
  /\ cPc = "idle"
  /\ cPc' = "started"
  /\ Settle(CheckVerdict)
  /\ cObserver' = TRUE
  /\ cInterval' = (cImpl = "lib")
  /\ cTimer' = "armed"
  /\ cEverText' = cText
  /\ UNCHANGED <<cImpl, cText, cPending, cElapsed, cLateText, cLateChecks>>
  /\ UNCHANGED notConfirm

\* A task of the host page changes the document (text appears, disappears, or
\* something unrelated changes).
HostTask ==
  /\ cPc = "started"
  /\ ~cPending
  /\ \E t \in BOOLEAN :
       /\ cText' = t
       /\ cEverText' = (cEverText \/ (t /\ ~cElapsed /\ cTimer = "armed"))
       /\ cLateText' = (cLateText \/ (t /\ cElapsed /\ cTimer = "armed"))
  /\ cPending' = QueuesRecord(cObserver)
  /\ UNCHANGED <<cImpl, cPc, cObserver, cInterval, cTimer, cElapsed, cSettled,
                 cResult, cLateChecks>>
  /\ UNCHANGED notConfirm

\* The observer's callback: () => check()
ObserverCallback ==
  /\ cPending
  /\ Settle(CheckVerdict)
  /\ TeardownOnSettle(CheckVerdict)
  /\ CountLateCheck
  /\ UNCHANGED <<cImpl, cPc, cText, cTimer, cElapsed, cEverText, cLateText>>
  /\ UNCHANGED notConfirm

\* The library's setInterval(check, checkInterval) tick
IntervalTick ==
  /\ cInterval
  /\ ~cPending
  /\ Settle(CheckVerdict)
  /\ TeardownOnSettle(CheckVerdict)
  /\ CountLateCheck
  /\ UNCHANGED <<cImpl, cPc, cText, cTimer, cElapsed, cEverText, cLateText>>
  /\ UNCHANGED notConfirm

\* Time passes: the deadline is reached before the timer task runs
DeadlinePasses ==
  /\ cTimer = "armed"
  /\ ~cPending
  /\ ~cElapsed
  /\ cElapsed' = TRUE
  /\ cLateText' = cText
  /\ UNCHANGED <<cImpl, cPc, cText, cPending, cObserver, cInterval, cTimer,
                 cSettled, cResult, cEverText, cLateChecks>>
  /\ UNCHANGED notConfirm

\* The timeout timer.
\*   content: () => { observer.disconnect(); resolve(false); }
\*   lib:     () => done({ success: false, reason: 'timeout' })
ConfirmTimeout ==
  /\ cTimer = "armed"
  /\ ~cPending
  /\ cTimer' = "fired"
  /\ cElapsed' = TRUE
  /\ Settle("false")
  /\ IF cImpl = "content"
     THEN cObserver' = FALSE /\ UNCHANGED cInterval
     ELSE IF ~cSettled
     THEN cObserver' = FALSE /\ cInterval' = FALSE
     ELSE UNCHANGED <<cObserver, cInterval>>
  /\ UNCHANGED <<cImpl, cPc, cText, cPending, cEverText, cLateText, cLateChecks>>
  /\ UNCHANGED notConfirm

ConfirmNext ==
  \/ ConfirmStart
  \/ HostTask
  \/ ObserverCallback
  \/ IntervalTick
  \/ DeadlinePasses
  \/ ConfirmTimeout

SpecConfirm == ConfirmInit /\ [][ConfirmNext]_vars

\* C2: between two tasks, a wait under which the success text has been in the
\* document before the deadline has resolved true; a wait whose timer has
\* fired has resolved, and with false if no text was ever there; it resolves
\* false only once the deadline has elapsed without a match before it.
C2_ConfirmResolves ==
  /\ (cPc = "started" /\ ~cPending /\ cEverText) => (cSettled /\ cResult)
  /\ (cTimer = "fired") => cSettled
  /\ (cTimer = "fired" /\ ~cEverText /\ ~cLateText) => ~cResult
  /\ (cSettled /\ ~cResult) => (cElapsed /\ ~cEverText)

\* text appears during the wait, after the first check found none
C2_Witness ==
  /\ cImpl = "content" /\ cSettled /\ cResult /\ cText /\ cTimer = "armed"
  /\ ~cElapsed /\ cLateChecks = 0 /\ cEverText /\ ~cPending /\ cObserver

\* C16: a confirmation wait settles once, and from the moment it has settled
\* its observer is not observing, its interval is cleared and no check() of
\* it runs again, also when the first check() already matches.
C16_TornDownAtSettlement ==
  /\ [](cSettled => (~cObserver /\ ~cInterval /\ cLateChecks = 0))
  /\ [][cSettled => (cSettled' /\ cResult' = cResult)]_vars

\* C17: success text that is in the document when the wait starts (the wait
\* starts in the task of the click, so the text was there before the click)
\* does not make the first check() of that wait resolve true.
C17_StaleTextNotConfirmed ==
  [][(cPc = "idle" /\ cText) => ~(cSettled' /\ cResult')]_vars

(***************************************************************************)
(* ElementFinder.waitFor, in the content script and in the library.  As in *)
(* the confirmation wait, the callbacks of the observer run right after    *)
(* the task that queued their records.                                     *)
(***************************************************************************)
WaitNodes == {"none", "unfit", "fit"}

WaitInit ==
  /\ FlowIdle
  /\ ParIdle
  /\ QuickIdle
  /\ BgIdle
  /\ DebounceIdle
  /\ FormIdle
  /\ SettingsIdle
  /\ FilterIdle
  /\ ClickIdle
  /\ FindIdle
  /\ RetryIdle
  /\ ConfirmIdle
  /\ ExtractIdle
  /\ wImpl \in {"content", "lib"}
  /\ wPc = "idle"
  /\ wNode \in WaitNodes
  /\ wPending = FALSE
  /\ wObserver = FALSE
  /\ wTimer = "none"
  /\ wElapsed = FALSE
  /\ wState = "pending"
  /\ wEvals = 0
  /\ wHit = FALSE

\* check(): `if (element && condition(element))` first, the elapsed clock
\* second.  "resolve" / "reject": what check() calls; "none": it returns.
WaitVerdict ==
  IF wNode = "fit" THEN "resolve" ELSE IF wElapsed THEN "reject" ELSE "none"

\* resolve(element) / reject(error): the first call settles the promise
WaitSettle(v) ==
  wState' = IF wState # "pending" \/ v = "none" THEN wState
            ELSE IF v = "resolve" THEN "resolved" ELSE "rejected"

\* the history of the check() runs
WaitCounted ==
  /\ wEvals' = Min(wEvals + 1, MaxWaitEvals)
  /\ wHit' = (wHit \/ wNode = "fit")

StaysSubscribed(observing) == observing

\* observer.disconnect()
AfterDisconnect(observing) == FALSE

\* the timer callback of the library calls reject(...); the timer callback of
\* the content script only disconnects
TimerRejects(impl) == impl = "lib"

\* The executor of the promise.
\*   content: observer = new MutationObserver(...); check(); observer.observe(...);
\*            setTimeout(...)
\*   lib:     check(); observer = new MutationObserver(...); observer.observe(...);
\*            setTimeout(...)
\* A disconnect() of the first check() comes before observe(): the observer is
\* observing after the executor either way.
WaitStart ==
  /\ wPc = "idle"
  /\ wPc' = "started"
  /\ WaitSettle(WaitVerdict)
  /\ WaitCounted
  /\ wObserver' = TRUE
  /\ wTimer' = "armed"
  /\ UNCHANGED <<wImpl, wNode, wPending, wElapsed>>
  /\ UNCHANGED notWait

\* A task of the host page changes the container.
WaitHostTask ==
  /\ wPc = "started"
  /\ ~wPending
  /\ wNode' \in WaitNodes
  /\ wPending' = wObserver
  /\ UNCHANGED <<wImpl, wPc, wObserver, wTimer, wElapsed, wState, wEvals, wHit>>
  /\ UNCHANGED notWait

\* The observer's callback: () => { try { check(); } catch (_) {} }
WaitObserverCallback ==
  /\ wPending
  /\ wPending' = FALSE
  /\ WaitSettle(WaitVerdict)
  /\ WaitCounted
  /\ wObserver' = IF WaitVerdict = "none" THEN wObserver
                  ELSE AfterDisconnect(wObserver)
  /\ UNCHANGED <<wImpl, wPc, wNode, wTimer, wElapsed>>
  /\ UNCHANGED notWait

\* Time passes: the deadline is reached before the timer task runs
WaitDeadlinePasses ==
  /\ wTimer = "armed"
  /\ ~wPending
  /\ ~wElapsed
  /\ wElapsed' = TRUE
  /\ UNCHANGED <<wImpl, wPc, wNode, wPending, wObserver, wTimer, wState, wEvals,
                 wHit>>
  /\ UNCHANGED notWait

\* The timeout timer.
\*   content: () => { try { observer.disconnect(); } catch(_) {} }
\*   lib:     () => { try { observer.disconnect(); } catch(e) {} reject(...); }
WaitTimeout ==
  /\ wTimer = "armed"
  /\ ~wPending
  /\ wTimer' = "fired"
  /\ wElapsed' = TRUE
  /\ wObserver' = AfterDisconnect(wObserver)
  /\ WaitSettle(IF TimerRejects(wImpl) THEN "reject" ELSE "none")
  /\ UNCHANGED <<wImpl, wPc, wNode, wPending, wEvals, wHit>>
  /\ UNCHANGED notWait

WaitNext ==
  \/ WaitStart
  \/ WaitHostTask
  \/ WaitObserverCallback
  \/ WaitDeadlinePasses
  \/ WaitTimeout

SpecWait == WaitInit /\ [][WaitNext]_vars

\* a queued callback runs, and a timer that is armed fires, whatever the page
\* does in between
FairSpecWait ==
  SpecWait /\ WF_vars(WaitStart) /\ WF_vars(WaitObserverCallback) /\ SF_vars(WaitTimeout)

\* C14: every waitFor call settles; a run of check() that finds a node
\* resolves it, and it is rejected only once the timeout has elapsed with no
\* run of check() having found a node.
C14_WaitForSettles ==
  /\ (wPc = "started") ~> (wState # "pending")
  /\ [](wHit => wState = "resolved")
  /\ [](wState = "rejected" => (wElapsed /\ ~wHit))

\* C15: once the timeout timer of a waitFor call has fired its observer is
\* not observing and no record is queued for it, whether the call was settled
\* by its first check(), by a later one or by the timer; and the timer fires.
C15_ObserverDisconnected ==
  /\ (wPc = "started") ~> (wTimer = "fired")
  /\ [](wTimer = "fired" => (~wObserver /\ ~wPending))
  /\ [][wTimer = "fired" => (wObserver' = wObserver /\ wEvals' = wEvals)]_vars

\* the first check() resolved the call before observe(), and the timer fired
C15_Witness ==
  /\ wImpl = "lib"
  /\ wState = "resolved"
  /\ wEvals = 1
  /\ wTimer = "fired"
  /\ ~wObserver

(***************************************************************************)
(* ElementFinder.find, in the content script and in the library.           *)
(***************************************************************************)
FindNodes == {"n1", "n2"}

Selectors == [xpath : BOOLEAN, res : {"invalid", "none"} \cup FindNodes]

SelectorLists ==
  UNION {[1..n -> Selectors] : n \in 0..MaxSelectors}

\* the content script's finder has no useXPath option
FindInputOk(impl, useXPath) == (impl = "content") => useXPath

FindInit ==
  /\ FlowIdle
  /\ RetryIdle
  /\ ConfirmIdle
  /\ ExtractIdle
  /\ WaitIdle
  /\ ParIdle
  /\ QuickIdle
  /\ BgIdle
  /\ DebounceIdle
  /\ FormIdle
  /\ SettingsIdle
  /\ FilterIdle
  /\ ClickIdle
  /\ fnImpl \in {"content", "lib"}
  /\ fnUseXPath \in BOOLEAN
  /\ FindInputOk(fnImpl, fnUseXPath)
  /\ fnSelectors \in SelectorLists
  /\ fnPc = "call"
  /\ fnResult = "none"

\* try { container.querySelector(selector) } catch: null
QuerySelector(sel) == IF sel.res = "invalid" THEN "none" ELSE sel.res

\* document.evaluate(...).singleNodeValue: guarded by try/catch in the
\* library (_findByXPath), unguarded in the content script
Evaluate(impl, sel) ==
  IF sel.res = "invalid"
  THEN IF impl = "content" THEN "throw" ELSE "none"
  ELSE sel.res

\* One strategy: "throw", "none" (null) or the node found.  With useXPath off
\* the library hands the `xpath:...` string to querySelector, which rejects
\* it as a selector.
TrySelector(impl, useXPath, sel) ==
  IF sel.xpath
  THEN IF useXPath THEN Evaluate(impl, sel) ELSE "none"
  ELSE QuerySelector(sel)

\* for (const selector of selectors) ...; return null
RECURSIVE FindIn(_, _, _)
FindIn(impl, useXPath, sels) ==
  IF sels = <<>>
  THEN "none"
  ELSE LET r == TrySelector(impl, useXPath, Head(sels))
       IN  IF r = "none" THEN FindIn(impl, useXPath, Tail(sels)) ELSE r

FindCall ==
  /\ fnPc = "call"
  /\ LET r == FindIn(fnImpl, fnUseXPath, fnSelectors)
     IN  IF r = "throw"
         THEN fnPc' = "threw" /\ UNCHANGED fnResult
         ELSE fnPc' = "returned" /\ fnResult' = r
  /\ UNCHANGED <<fnImpl, fnUseXPath, fnSelectors>>
  /\ UNCHANGED notFind

FindNext == FindCall

SpecFind == FindInit /\ [][FindNext]_vars

\* the node strategy i matches (a strategy the finder does not evaluate, or
\* whose selector is invalid, matches none)
Match(i) ==
  LET sel == fnSelectors[i]
  IN  IF sel.res \in FindNodes /\ (sel.xpath => fnUseXPath)
      THEN sel.res ELSE "none"

FirstMatch ==
  LET hits == {i \in 1..Len(fnSelectors) : Match(i) # "none"}
  IN  IF hits = {} THEN "none"
      ELSE Match(CHOOSE i \in hits : \A j \in hits : i <= j)

\* C21: find never throws, and it returns the match of the first strategy in
\* configured order that matches a node, null when none does (a strategy
\* with an invalid selector matches none).
C21_FirstMatchWins ==
  (fnPc # "call") => (fnPc = "returned" /\ fnResult = FirstMatch)

(***************************************************************************)
(* EventSimulator.click, in the content script and in the library.         *)
(***************************************************************************)
EventTypes ==
  {"pointerover", "pointerdown", "pointerup",
   "mouseover", "mousedown", "mouseup", "click"}

ClickOptions ==
  [usePointerEvents : BOOLEAN, simulateHover : BOOLEAN,
   scroll : BOOLEAN, delayed : BOOLEAN]

\* the content script's simulator has no options
ClickInputOk(impl, opts) ==
  (impl = "content") =>
    opts = [usePointerEvents |-> TRUE, simulateHover |-> TRUE,
            scroll |-> TRUE, delayed |-> FALSE]

ClickInit ==
  /\ FlowIdle
  /\ RetryIdle
  /\ ConfirmIdle
  /\ ExtractIdle
  /\ WaitIdle
  /\ ParIdle
  /\ QuickIdle
  /\ BgIdle
  /\ DebounceIdle
  /\ FormIdle
  /\ SettingsIdle
  /\ FilterIdle
  /\ FindIdle
  /\ kImpl \in {"content", "lib"}
  /\ kNode \in BOOLEAN
  /\ kRuntime \in BOOLEAN
  /\ kOpts \in ClickOptions
  /\ ClickInputOk(kImpl, kOpts)
  /\ kFault \in {"none", "scroll"} \cup EventTypes
  /\ kPc = "call"
  /\ kReturn = "none"
  /\ kScrolled = FALSE
  /\ kEvents = <<>>

When(c, seq) == IF c THEN seq ELSE <<>>

\* the dispatchEvent calls of one click, in program order
DispatchOrder(impl, runtime, opts) ==
  IF impl = "content"
  THEN When(runtime, <<"pointerover", "pointerdown", "pointerup">>)
         \o <<"mouseover", "mousedown", "mouseup", "click">>
  ELSE LET pointer == opts.usePointerEvents /\ runtime
       IN  When(opts.simulateHover,
                When(pointer, <<"pointerover">>) \o <<"mouseover">>)
             \o When(pointer, <<"pointerdown", "pointerup">>)
             \o <<"mousedown", "mouseup", "click">>

\* the events dispatched before the one whose dispatch throws
RECURSIVE UpToFault(_, _)
UpToFault(seq, fault) ==
  IF seq = <<>> \/ Head(seq) = fault
  THEN <<>>
  ELSE <<Head(seq)>> \o UpToFault(Tail(seq), fault)

Throws(seq, fault) == \E i \in 1..Len(seq) : seq[i] = fault

\* try { dispatches; return true } catch { return false }
PerformClick ==
  LET order == DispatchOrder(kImpl, kRuntime, kOpts)
  IN  /\ kEvents' = UpToFault(order, kFault)
      /\ kPc' = "done"

PerformReturns ==
  IF Throws(DispatchOrder(kImpl, kRuntime, kOpts), kFault)
  THEN "false" ELSE "true"

\* click(element, options), up to its return
ClickCall ==
  /\ kPc = "call"
  /\ IF ~kNode
     THEN /\ kReturn' = "false"
          /\ kPc' = "done"
          /\ UNCHANGED <<kScrolled, kEvents>>
     ELSE IF kOpts.scroll /\ kFault = "scroll"
     THEN /\ kReturn' = "false"
          /\ kPc' = "done"
          /\ UNCHANGED <<kScrolled, kEvents>>
     ELSE IF kImpl = "lib" /\ kOpts.delayed
     THEN /\ kReturn' = "true"
          /\ kPc' = "timer"
          /\ kScrolled' = kOpts.scroll
          /\ UNCHANGED kEvents
     ELSE /\ PerformClick
          /\ kReturn' = PerformReturns
          /\ kScrolled' = kOpts.scroll
  /\ UNCHANGED <<kImpl, kNode, kRuntime, kOpts, kFault>>
  /\ UNCHANGED notClick

\* setTimeout(() => this._performClick(element, options), delay)
ClickTimer ==
  /\ kPc = "timer"
  /\ PerformClick
  /\ UNCHANGED <<kImpl, kNode, kRuntime, kOpts, kFault, kReturn, kScrolled>>
  /\ UNCHANGED notClick

ClickNext == ClickCall \/ ClickTimer

SpecClick == ClickInit /\ [][ClickNext]_vars

\* C22: click does not throw; it has returned false when the node is null
\* and when the scroll or a dispatch threw; and when it has returned true
\* every event of the sequence has been dispatched.
C22_ClickNeverThrows ==
  /\ kReturn # "threw"
  /\ (kPc # "call" /\ ~kNode) => kReturn = "false"
  /\ (kPc = "done" /\ kNode /\ ~kScrolled /\ kOpts.scroll) => kReturn = "false"
  /\ (kPc = "done" /\ Len(kEvents) < Len(DispatchOrder(kImpl, kRuntime, kOpts)))
       => kReturn = "false"
  /\ (kReturn = "true") => kEvents = DispatchOrder(kImpl, kRuntime, kOpts)

\* the sequence of a click as stated, in a runtime with or without pointer
\* events (pointerover / mouseover are the enter events)
StatedSequence(runtime) ==
  IF runtime
  THEN <<"pointerover", "mouseover", "pointerdown", "mousedown",
         "pointerup", "mouseup", "click">>
  ELSE <<"mouseover", "mousedown", "mouseup", "click">>

\* C23: a click that ran to its end without a throw, with the default
\* options, has dispatched pointer-enter, mouse-enter, pointer-down,
\* mouse-down, pointer-up, mouse-up, click in this order, the mouse events
\* alone when the runtime has no pointer events.
C23_EventOrder ==
  (/\ kPc = "done" /\ kReturn = "true"
   /\ kOpts.usePointerEvents /\ kOpts.simulateHover)
    => kEvents = StatedSequence(kRuntime)

(***************************************************************************)
(* extractListsFromDropdown.  A string of the page (an element id, a text) *)
(* is a sequence of tokens; NamePrefix is the text 'atwl-list-name-', BadCh *)
(* a character that cannot stand in a CSS id selector, Blank white space.  *)
(***************************************************************************)
NamePrefix == "atwl-list-name-"
LinkPrefix == "atwl-link-to-list-"
CreateLabel == "Create a List"
BadCh == ":"
Blank == " "

\* the last id is that of the link of a dropdown item, whose text is the
\* name inside it
SpanIds ==
  {<<NamePrefix>>, <<NamePrefix, "A">>, <<NamePrefix, "B">>,
   <<NamePrefix, BadCh>>, <<"A">>, <<LinkPrefix, "A">>}
SpanTexts == {<<>>, <<CreateLabel>>, <<Blank, CreateLabel>>, <<"Books">>}
SpanNodes == [id : SpanIds, text : SpanTexts]

SeqsUpTo(S, n) == UNION {[1..k -> S] : k \in 0..n}

\* String.prototype.trim
RECURSIVE TrimLeft(_)
TrimLeft(t) == IF t # <<>> /\ Head(t) = Blank THEN TrimLeft(Tail(t)) ELSE t
RECURSIVE TrimRight(_)
TrimRight(t) ==
  IF t # <<>> /\ t[Len(t)] = Blank THEN TrimRight(SubSeq(t, 1, Len(t) - 1)) ELSE t
Trim(t) == TrimRight(TrimLeft(t))

\* id.replace('atwl-list-name-', ''): the first occurrence is removed
RECURSIVE ReplaceFirst(_, _)
ReplaceFirst(id, tok) ==
  IF id = <<>> THEN <<>>
  ELSE IF Head(id) = tok THEN Tail(id)
  ELSE <<Head(id)>> \o ReplaceFirst(Tail(id), tok)

\* span[id^="atwl-list-name-"]
IsNameSpan(node) == node.id # <<>> /\ Head(node.id) = NamePrefix
NameElements(container) == SelectSeq(container, IsNameSpan)

\* container.querySelector(`#atwl-link-to-list-${listId}`) throws a
\* SyntaxError when the selector text is not a valid selector
SelectorThrows(listId) == \E i \in 1..Len(listId) : listId[i] = BadCh

\* if (listName && listName !== 'Create a List')
KeepsName(listName) == listName # <<>> /\ listName # <<CreateLabel>>

\* the forEach over the name spans: `seen` is seenIds, `lists` the records so
\* far; the result is the records, and whether the scan threw
RECURSIVE ScanNames(_, _, _)
ScanNames(spans, seen, lists) ==
  IF spans = <<>> THEN [threw |-> FALSE, lists |-> lists]
  ELSE LET listId == ReplaceFirst(Head(spans).id, NamePrefix)
           listName == Trim(Head(spans).text)
       IN  IF listId \in seen THEN ScanNames(Tail(spans), seen, lists)
           ELSE IF SelectorThrows(listId) THEN [threw |-> TRUE, lists |-> lists]
           ELSE IF KeepsName(listName)
           THEN ScanNames(Tail(spans), seen \cup {listId},
                          Append(lists, [id |-> listId, name |-> listName]))
           ELSE ScanNames(Tail(spans), seen \cup {listId}, lists)

ExtractScan(container) == ScanNames(NameElements(container), {}, <<>>)

\* extractListsFromDropdown(container), with queueSendListsUpdate():
\* a non-empty result replaces userLists and (re)arms the update timer
AnyResult(lists) == TRUE

\* if (lists.length > 0)
NonEmpty(lists) == Len(lists) > 0

Extracted(container) ==
  LET r == ExtractScan(container)
  IN  IF ~r.threw /\ NonEmpty(r.lists)
      THEN userLists' = r.lists /\ sendListsTimer' = TRUE
      ELSE UNCHANGED <<userLists, sendListsTimer>>

\* the debounce timer of queueSendListsUpdate fires: sendListsToSidebar()
SendListsTimerFires ==
  /\ sendListsTimer
  /\ sendListsTimer' = FALSE
  /\ xSent' = userLists
  /\ UNCHANGED <<xDom, userLists, xLists, xThrew, xCalls>>

\* subtrees the host re-renders the overlay to
RenderSamples ==
  {<<>>,
   <<[id |-> <<NamePrefix, "A">>, text |-> <<CreateLabel>>]>>,
   <<[id |-> <<NamePrefix, "B">>, text |-> <<"Books">>]>>}

ExtractInit ==
  /\ FlowIdle
  /\ RetryIdle
  /\ ConfirmIdle
  /\ WaitIdle
  /\ ParIdle
  /\ QuickIdle
  /\ BgIdle
  /\ DebounceIdle
  /\ FormIdle
  /\ SettingsIdle
  /\ FilterIdle
  /\ ClickIdle
  /\ FindIdle
  /\ xDom \in SeqsUpTo(SpanNodes, MaxNodes)
  /\ userLists = <<>>
  /\ sendListsTimer = FALSE
  /\ xLists = <<>>
  /\ xThrew = FALSE
  /\ xCalls = 0
  /\ xSent = <<>>

ExtractCall ==
  /\ xCalls < MaxExtractCalls
  /\ xCalls' = xCalls + 1
  /\ Extracted(xDom)
  /\ xLists' = ExtractScan(xDom).lists
  /\ xThrew' = ExtractScan(xDom).threw
  /\ UNCHANGED <<xDom, xSent>>
  /\ UNCHANGED notExtract

ExtractHostRenders ==
  /\ xCalls \in 1..(MaxExtractCalls - 1)
  /\ xDom' \in RenderSamples \ {xDom}
  /\ UNCHANGED <<userLists, sendListsTimer, xLists, xThrew, xCalls, xSent>>
  /\ UNCHANGED notExtract

ExtractTimer ==
  /\ SendListsTimerFires
  /\ UNCHANGED notExtract

ExtractNext == ExtractCall \/ ExtractHostRenders \/ ExtractTimer

SpecExtract == ExtractInit /\ [][ExtractNext]_vars

\* C36: userLists changes only in an extraction, and then to the non-empty
\* result of that extraction; an extraction that yields no record (or throws)
\* leaves userLists and the update timer as they were; userLists, once
\* non-empty, stays non-empty.
C36_ListsNeverEmptied ==
  /\ [][(xCalls' # xCalls) =>
          IF ~xThrew' /\ xLists' # <<>>
          THEN userLists' = xLists' /\ sendListsTimer'
          ELSE userLists' = userLists /\ sendListsTimer' = sendListsTimer]_vars
  /\ [][(userLists' # userLists) => (xCalls' # xCalls)]_vars
  /\ [][(userLists # <<>>) => (userLists' # <<>>)]_vars

\* the second extraction found no record after the timer had fired
C36_Witness ==
  /\ xCalls = 2 /\ ~xThrew /\ xLists = <<>>
  /\ userLists # <<>> /\ xSent = userLists /\ ~sendListsTimer

NoDuplicateIds(lists) ==
  \A i, j \in 1..Len(lists) : lists[i].id = lists[j].id => i = j

\* C3: every record an extraction produces has a non-empty id, no two records
\* it produces have the same id, and no record's name is the create-a-list
\* label.
C3_RecordsWellFormed ==
  /\ \A i \in 1..Len(xLists) :
       xLists[i].id # <<>> /\ xLists[i].name # <<CreateLabel>>
  /\ NoDuplicateIds(xLists)

\* the name spans of a subtree that are the first of their id and usable
\* (a non-blank text other than the create-a-list label), in document order
FirstUsable(container) ==
  LET spans == NameElements(container)
      First(i) == \A j \in 1..(i - 1) : spans[j].id # spans[i].id
      Usable(i) == KeepsName(Trim(spans[i].text))
      Record(node) == [id |-> ReplaceFirst(node.id, NamePrefix),
                       name |-> Trim(node.text)]
      RECURSIVE From(_)
      From(i) ==
        IF i > Len(spans) THEN <<>>
        ELSE IF First(i) /\ Usable(i)
        THEN <<Record(spans[i])>> \o From(i + 1)
        ELSE From(i + 1)
  IN  From(1)

\* C24: the result of an extraction is the records of the name nodes that
\* are the first of their id and usable, one for each, in document order; an
\* extraction that gives no result (it threw) had no such node to report.
C24_FirstOccurrenceWins ==
  [][(xCalls' = xCalls + 1) =>
       IF xThrew' THEN FirstUsable(xDom) = <<>>
       ELSE xLists' = FirstUsable(xDom)]_vars

\* the dropdown items of a subtree whose link carries a list id and whose
\* inner name is usable
IsItemLink(node) ==
  /\ Len(node.id) > 1
  /\ Head(node.id) = LinkPrefix
  /\ KeepsName(Trim(node.text))

\* C25: an extraction over a subtree in which no name span gives a record
\* and a dropdown item carries a list id and a usable name gives a non-empty
\* list of records.
C25_SecondaryStrategy ==
  [][(/\ xCalls' = xCalls + 1
      /\ FirstUsable(xDom) = <<>>
      /\ SelectSeq(xDom, IsItemLink) # <<>>)
       => (~xThrew' /\ xLists' # <<>>)]_vars

\* C26: an extraction changes no state of the content script: the current
\* records, the pending update timer and the messages sent are as before it.
C26_ExtractionIsPure ==
  [][(xCalls' = xCalls + 1) =>
       (userLists' = userLists /\ sendListsTimer' = sendListsTimer
        /\ xSent' = xSent)]_vars


(***************************************************************************)
(* The message flows of the content script.  A flow suspends at its        *)
(* awaits; between two awaits it runs without the page or a timer getting  *)
(* a turn.  What the page holds when the flow reads it is an input of the  *)
(* reading step (the trigger, the collection link, the modal) or state the *)
(* host page changes while the flow is suspended (the overlay elements,    *)
(* the spans).                                                             *)
(***************************************************************************)
MAX_ATTEMPTS == 10          \* CONFIG.INTERACTION.RETRY.MAX_ATTEMPTS
MaxClickAttempts == 10      \* maxClickAttempts of openListDropdownAndWait
CreateMaxAttempts == 3      \* maxAttempts of the retry in createNewList
CreateClickAttempts == 10   \* maxClickAttempts of createNewList
FillAttempts == 3           \* passes of the loop that sets the name input

OverlayNodes == {"pop", "inner", "dd"}

\* positions at which a flow is suspended on a timer or a wait ("idle": the
\* content script waits for a message)
AwaitPcs ==
  {"idle", "open_dismiss_wait", "open_wait", "open_settle", "confirm_wait",
   "retry_wait", "create_dismiss_wait", "create_render_wait",
   "create_modal_wait", "create_modal_settle", "create_fill_wait",
   "create_submit_wait", "create_still_wait"}

\* document.querySelector('.a-popover[aria-hidden="false"], #atwl-popover-inner'):
\* the first match in document order
FastPathNode ==
  IF innerFirst
  THEN IF "inner" \in shown THEN "inner"
       ELSE IF "pop" \in shown THEN "pop" ELSE "none"
  ELSE IF "pop" \in shown THEN "pop"
       ELSE IF "inner" \in shown THEN "inner" ELSE "none"

\* querySelector('.a-popover[aria-hidden="false"]') ||
\* querySelector('#atwl-popover-inner') ||
\* querySelector('.a-dropdown[aria-hidden="false"]')
PollNode ==
  IF "pop" \in shown THEN "pop"
  ELSE IF "inner" \in shown THEN "inner"
  ELSE IF "dd" \in shown THEN "dd" ELSE "none"

\* the forceNew argument: only createNewList passes true
ForceNew == msg = "CREATE_LIST"

ReturnsAnything(existing, forceNew) == ~forceNew

\* if (existing && !forceNew) return existing;
ReturnsExisting(existing, forceNew) == existing # "none" /\ ~forceNew

\* the spec's failure reason of an error of the flow
ErrorClass(e) ==
  CASE e = "Add-to-list dropdown button not found" -> "TriggerNotFound"
    [] e = "Timeout waiting for dropdown to open" -> "OverlayOpenTimeout"
    [] e = "Dropdown did not open after multiple attempts" -> "OverlayOpenTimeout"
    [] e = "List element not found" -> "TargetNotFound"
    [] e = "Confirmation not received" -> "ConfirmationTimeout"
    [] e = "not_on_product_page" -> "NotOnTargetPage"
    [] OTHER -> "Other"

Unexplained(e) == [type |-> "response", success |-> FALSE, error |-> "none"]

Failure(e) == [type |-> "response", success |-> FALSE, error |-> e]
Success == [type |-> "response", success |-> TRUE, error |-> "none"]

\* the history of steps is kept for ADD_TO_LIST attempts
Trace(s) == IF msg = "ADD_TO_LIST" THEN steps \o s ELSE steps

\* time passes during an await: the elapsed clock does not go back
LaterThan(el) ==
  IF el = "lt" THEN {"lt", "eq", "gt"} ELSE IF el = "eq" THEN {"eq", "gt"} ELSE {"gt"}

NeverTimedOut(el) == FALSE

\* if (Date.now() - startTime > timeout)
TimedOut(el) == el = "gt"

\* for (let i = 0; i < maxClickAttempts; i++): another pass after pass i
AnotherClick(i) == i + 1 < MaxClickAttempts

\* filterPersistence.clear(); this.setListFilterValue(popover, ''): the input
\* event of the reset input saves '' again
ClearFilterAndInput ==
  /\ storedFilter' = ""
  /\ inputVal' = IF inputVal = "none" THEN "none" ELSE ""

\* a throw out of openListDropdownAndWait: its locals are gone
throw(e) ==
  /\ pc' = "open_throw"
  /\ err' = e
  /\ iClick' = 0
  /\ elapsed' = "lt"

ClicksAbsentTrigger(btn) == FALSE

\* if (!btn) throw new Error('Add-to-list dropdown button not found')
TriggerAbsent(btn) == ~btn

\* const btn = this.findAddToListButton(); if (!btn) throw ...; then the first
\* pass of the click loop up to its await
OpenLocateTriggerAndClick ==
  \E btn \in BOOLEAN :
    /\ btnSeen' = IF btn THEN "found" ELSE "missing"
    /\ IF TriggerAbsent(btn)
       THEN /\ throw("Add-to-list dropdown button not found")
            /\ openClicks' = 0
       ELSE /\ pc' = "open_wait"
            /\ iClick' = 0
            /\ elapsed' = "lt"
            /\ openClicks' = 1
            /\ UNCHANGED err

\* openListDropdownAndWait(forceNew), up to its first await or its return
OpenEnter ==
  /\ pc = "open_enter"
  /\ IF ReturnsExisting(FastPathNode, ForceNew)
     THEN /\ pc' = "open_return"
          /\ popover' = FastPathNode
          /\ openClicks' = 0
          /\ steps' = Trace(<<"open">>)
          /\ UNCHANGED <<iClick, elapsed, err, btnSeen>>
     ELSE IF FastPathNode # "none" /\ ForceNew
     THEN /\ pc' = "open_dismiss_wait"       \* body.click(), Escape, wait 300
          /\ openClicks' = 0
          /\ UNCHANGED <<popover, iClick, elapsed, err, steps, btnSeen>>
     ELSE /\ OpenLocateTriggerAndClick
          /\ UNCHANGED <<popover, steps>>
  /\ UNCHANGED <<msg, msgCount, attempt, response>>
  /\ UNCHANGED <<pageVars, extractVars, notFlow>>
  /\ UNCHANGED <<everClicked, confirmedOk, prevNode, untouched, everShown,
                 submitClicks>>
  /\ UNCHANGED missedFirst
  /\ UNCHANGED <<navigated, itemPage, nameStuck>>

\* after the 300 ms that follow the dismiss gesture
OpenAfterDismiss ==
  /\ pc = "open_dismiss_wait"
  /\ OpenLocateTriggerAndClick
  /\ UNCHANGED <<msg, msgCount, attempt, response, popover, steps>>
  /\ UNCHANGED <<pageVars, extractVars, notFlow>>
  /\ UNCHANGED <<everClicked, confirmedOk, prevNode, untouched, everShown,
                 submitClicks>>
  /\ UNCHANGED missedFirst
  /\ UNCHANGED <<navigated, itemPage, nameStuck>>

\* after the 200 ms that follow a trigger click: poll for the overlay, then the
\* timeout check, then the next pass of the loop with its click
OpenPoll ==
  /\ pc = "open_wait"
  /\ \E el \in LaterThan(elapsed) :
       IF PollNode # "none"
       THEN /\ popover' = PollNode
            /\ pc' = "open_settle"         \* break; wait 100
            /\ iClick' = 0
            /\ elapsed' = "lt"
            /\ steps' = Trace(<<"open">>)
            /\ UNCHANGED <<openClicks, err>>
       ELSE IF TimedOut(el)
       THEN /\ throw("Timeout waiting for dropdown to open")
            /\ UNCHANGED <<popover, openClicks, steps>>
       ELSE IF AnotherClick(iClick)
       THEN /\ iClick' = iClick + 1
            /\ elapsed' = el
            /\ openClicks' = openClicks + 1
            /\ UNCHANGED <<pc, popover, err, steps>>
       ELSE /\ throw("Dropdown did not open after multiple attempts")
            /\ UNCHANGED <<popover, openClicks, steps>>
  /\ UNCHANGED <<msg, msgCount, attempt, response>>
  /\ UNCHANGED <<pageVars, extractVars, notFlow>>
  /\ UNCHANGED <<everClicked, confirmedOk, prevNode, untouched, everShown,
                 submitClicks>>
  /\ UNCHANGED btnSeen
  /\ UNCHANGED missedFirst
  /\ UNCHANGED <<navigated, itemPage, nameStuck>>

\* after the 100 ms of render settling: clear the filter, extract, return
OpenFinish ==
  /\ pc = "open_settle"
  /\ ClearFilterAndInput
  /\ Extracted(xDom)
  /\ steps' = Trace(<<"extract">>)
  /\ IF ExtractScan(xDom).threw
     THEN throw("SyntaxError") /\ popover' = "none"
     ELSE pc' = "open_return" /\ UNCHANGED <<err, popover, iClick, elapsed>>
  /\ UNCHANGED <<msg, msgCount, attempt, response>>
  /\ UNCHANGED <<shown, innerFirst, persist, notFlow>>
  /\ UNCHANGED <<xDom, xLists, xThrew, xCalls, xSent>>
  /\ UNCHANGED <<openClicks, everClicked, confirmedOk, prevNode, untouched,
                 everShown, submitClicks>>
  /\ UNCHANGED btnSeen
  /\ UNCHANGED missedFirst
  /\ UNCHANGED <<navigated, itemPage, nameStuck>>

\* forceNew is false: the dismiss wait is not entered
OpenStep == OpenEnter \/ OpenPoll \/ OpenFinish

\* overlay subtrees the host renders while a flow runs
FlowSamples ==
  {<<>>,
   <<[id |-> <<NamePrefix, "B">>, text |-> <<"Books">>]>>,
   <<[id |-> <<NamePrefix, BadCh>>, text |-> <<"Books">>]>>}

\* the handler's gate (detectProductPage) and the reset of the history
\* the signals detectProductPage reads from the location and the document
PageSignals ==
  [hasPath : BOOLEAN, hasTitle : BOOLEAN, hasAsinInput : BOOLEAN,
   hasCanonical : BOOLEAN, hasOgProduct : BOOLEAN]

\* return hasPath || hasTitle || hasAsinInput || hasCanonical || hasOgProduct
DetectProductPage(p) ==
  p.hasPath \/ p.hasTitle \/ p.hasAsinInput \/ p.hasCanonical \/ p.hasOgProduct

NeverRefused(detected) == FALSE

\* if (!contentScript.detectProductPage()) return { success: false, ... }
Refused(detected) == ~detected

Receive(type, limit, detected, first) ==
  LET onPage == ~Refused(detected) IN
  /\ pc = "idle"
  /\ msgCount < limit
  /\ msg' = type
  /\ msgCount' = msgCount + 1
  /\ itemPage' = detected
  /\ nameStuck' = FALSE
  /\ IF onPage
     THEN pc' = first /\ response' = [type |-> "none"]
     ELSE pc' = "idle" /\ response' = Failure("not_on_product_page")
  /\ attempt' = IF onPage /\ type # "REQUEST_LISTS" THEN 1 ELSE 0
  /\ iClick' = 0
  /\ elapsed' = "lt"
  /\ popover' = "none"
  /\ err' = "none"
  /\ steps' = <<>>
  /\ openClicks' = 0
  /\ everClicked' = FALSE
  /\ confirmedOk' = FALSE
  /\ everShown' = (type = "ADD_TO_LIST" /\ onPage /\ shown # {})
  /\ submitClicks' = 0
  /\ btnSeen' = "none"
  /\ missedFirst' = FALSE
  /\ navigated' = FALSE
  /\ IF type = "REQUEST_LISTS" /\ onPage
     THEN UNCHANGED <<prevNode, untouched>>
     ELSE prevNode' = "none" /\ untouched' = FALSE
  /\ UNCHANGED <<pageVars, extractVars, notFlow>>

\* the catch block of RetryManager.retry around an attempt that threw e:
\* throw at the last attempt, else wait baseDelay
AttemptFails(e, maxAttempts) ==
  /\ popover' = "none"
  /\ iClick' = 0
  /\ elapsed' = "lt"
  /\ err' = "none"
  /\ IF GivesUp(attempt, maxAttempts)
     THEN pc' = "idle" /\ response' = Failure(e)
     ELSE pc' = "retry_wait" /\ UNCHANGED response

(***************************************************************************)
(* REQUEST_LISTS                                                           *)
(***************************************************************************)
\* onMessage, REQUEST_LISTS: if (!detectProductPage()) ...; openListDropdownAndWait()
ReceiveRequestLists ==
  \E p \in PageSignals :
    Receive("REQUEST_LISTS", MaxMessages, DetectProductPage(p), "open_enter")

\* REQUEST_LISTS: the open call returned or threw
RequestDone ==
  /\ msg = "REQUEST_LISTS"
  /\ pc \in {"open_return", "open_throw"}
  /\ pc' = "idle"
  /\ response' = IF pc = "open_return" THEN Success ELSE Failure(err)
  /\ prevNode' = IF pc = "open_return" THEN popover ELSE "none"
  /\ untouched' = (pc = "open_return")
  /\ popover' = "none"
  /\ err' = "none"
  /\ openClicks' = 0
  /\ UNCHANGED <<msg, msgCount, attempt, iClick, elapsed>>
  /\ UNCHANGED <<pageVars, extractVars, notFlow>>
  /\ UNCHANGED <<steps, everClicked, confirmedOk, everShown, submitClicks>>
  /\ btnSeen' = "none"
  /\ UNCHANGED missedFirst
  /\ UNCHANGED <<navigated, itemPage, nameStuck>>

(***************************************************************************)
(* ADD_TO_LIST: handleAddToListAction                                      *)
(***************************************************************************)
\* onMessage, ADD_TO_LIST: if (!detectProductPage()) ...; handleAddToListAction
ReceiveAddToList ==
  \E p \in PageSignals :
    Receive("ADD_TO_LIST", MaxAdds, DetectProductPage(p), "open_enter")

\* the open call of this attempt threw
AddOpenFailed ==
  /\ msg = "ADD_TO_LIST"
  /\ pc = "open_throw"
  /\ AttemptFails(err, MAX_ATTEMPTS)
  /\ openClicks' = 0
  /\ UNCHANGED <<msg, msgCount, attempt>>
  /\ UNCHANGED <<pageVars, extractVars, notFlow>>
  /\ UNCHANGED <<steps, everClicked, confirmedOk, prevNode, untouched, everShown,
                 submitClicks>>
  /\ btnSeen' = "none"
  /\ UNCHANGED missedFirst
  /\ UNCHANGED <<navigated, itemPage, nameStuck>>

ClicksUnlocated(linkElement) == TRUE

\* if (!linkElement) throw new Error('List element not found')
Located(linkElement) == linkElement

\* the open call returned: locate the link, with an extraction and a second
\* lookup when the first finds nothing; click it and start the confirmation
\* wait, or throw
AddLocateAndClick ==
  /\ msg = "ADD_TO_LIST"
  /\ pc = "open_return"
  /\ openClicks' = 0
  /\ \E linkElement \in BOOLEAN :
       LET again == popover # "none" /\ ~linkElement
           looked == IF again THEN <<"locate", "extract", "locate">>
                     ELSE <<"locate">>
       IN  /\ missedFirst' = (missedFirst \/ (again /\ attempt = 1))
           /\ IF again THEN Extracted(xDom)
              ELSE UNCHANGED <<userLists, sendListsTimer>>
           /\ IF popover = "none"
              THEN /\ AttemptFails("Could not open dropdown", MAX_ATTEMPTS)
                   /\ UNCHANGED <<steps, everClicked, storedFilter, inputVal>>
              ELSE IF again /\ ExtractScan(xDom).threw
              THEN /\ AttemptFails("SyntaxError", MAX_ATTEMPTS)
                   /\ steps' = steps \o <<"locate", "extract">>
                   /\ UNCHANGED <<everClicked, storedFilter, inputVal>>
              ELSE IF ~Located(linkElement)
              THEN /\ AttemptFails("List element not found", MAX_ATTEMPTS)
                   /\ steps' = steps \o looked
                   /\ UNCHANGED <<everClicked, storedFilter, inputVal>>
              ELSE /\ steps' = steps \o looked \o <<"click", "confirm">>
                   /\ everClicked' = TRUE
                   /\ IF ~persist THEN ClearFilterAndInput
                      ELSE UNCHANGED <<storedFilter, inputVal>>
                   /\ pc' = "confirm_wait"
                   /\ UNCHANGED <<popover, iClick, elapsed, err, response>>
  /\ UNCHANGED <<msg, msgCount, attempt>>
  /\ UNCHANGED <<shown, innerFirst, persist, notFlow>>
  /\ UNCHANGED <<xDom, xLists, xThrew, xCalls, xSent>>
  /\ UNCHANGED <<confirmedOk, prevNode, untouched, everShown, submitClicks>>
  /\ btnSeen' = "none"
  /\ UNCHANGED <<navigated, itemPage, nameStuck>>

ReportsAnyway(confirmed) == TRUE

\* if (confirmed) ... return true
Confirmed(confirmed) == confirmed

\* waitForAddConfirmation has resolved
AddConfirmation ==
  /\ msg = "ADD_TO_LIST"
  /\ pc = "confirm_wait"
  /\ \E confirmed \in BOOLEAN :
       /\ confirmedOk' = confirmed
       /\ IF Confirmed(confirmed)
          THEN /\ storedFilter' = IF ~persist THEN "" ELSE storedFilter
               /\ pc' = "idle"
               /\ response' = Success        \* { success: !!ok }
               /\ popover' = "none"
               /\ UNCHANGED <<iClick, elapsed, err>>
          ELSE /\ AttemptFails("Confirmation not received", MAX_ATTEMPTS)
               /\ UNCHANGED storedFilter
  /\ UNCHANGED <<msg, msgCount, attempt>>
  /\ UNCHANGED <<shown, innerFirst, inputVal, persist, extractVars, notFlow>>
  /\ UNCHANGED <<steps, openClicks, everClicked, prevNode, untouched, everShown,
                 submitClicks>>
  /\ UNCHANGED btnSeen
  /\ UNCHANGED missedFirst
  /\ UNCHANGED <<navigated, itemPage, nameStuck>>

\* the delay between two attempts is over: the next attempt begins
AddRetry ==
  /\ msg = "ADD_TO_LIST"
  /\ pc = "retry_wait"
  /\ attempt' = attempt + 1
  /\ pc' = "open_enter"
  /\ steps' = <<>>
  /\ confirmedOk' = FALSE
  /\ UNCHANGED <<msg, msgCount, iClick, elapsed, popover, err, response>>
  /\ UNCHANGED <<pageVars, extractVars, notFlow>>
  /\ UNCHANGED <<openClicks, everClicked, prevNode, untouched, everShown,
                 submitClicks>>
  /\ UNCHANGED btnSeen
  /\ UNCHANGED missedFirst
  /\ UNCHANGED <<navigated, itemPage, nameStuck>>

AddStep == AddOpenFailed \/ AddLocateAndClick \/ AddConfirmation \/ AddRetry

(***************************************************************************)
(* CREATE_LIST: createNewList                                              *)
(***************************************************************************)
\* onMessage, CREATE_LIST: if (!detectProductPage()) ...; createNewList
ReceiveCreateList ==
  \E p \in PageSignals :
    Receive("CREATE_LIST", MaxCreates, DetectProductPage(p), "create_enter")

\* what a step of createNewList outside the open call leaves alone
CreateFrame ==
  /\ UNCHANGED <<msg, msgCount, attempt>>
  /\ UNCHANGED <<pageVars, notFlow>>
  /\ UNCHANGED <<xDom, xLists, xThrew, xCalls, xSent>>
  /\ UNCHANGED <<steps, openClicks, everClicked, confirmedOk, prevNode,
                 untouched, everShown>>
  /\ UNCHANGED btnSeen
  /\ UNCHANGED missedFirst
  /\ UNCHANGED <<navigated, itemPage>>

\* an attempt begins: an overlay that is open is dismissed, with a wait of 500
CreateEnter ==
  /\ pc = "create_enter"
  /\ pc' = IF FastPathNode # "none" THEN "create_dismiss_wait" ELSE "open_enter"
  /\ UNCHANGED <<iClick, elapsed, popover, err, response>>
  /\ UNCHANGED <<userLists, sendListsTimer, submitClicks>>
  /\ CreateFrame
  /\ UNCHANGED nameStuck

\* after the 500 ms: openListDropdownAndWait(true)
CreateAfterDismiss ==
  /\ pc = "create_dismiss_wait"
  /\ pc' = "open_enter"
  /\ UNCHANGED <<iClick, elapsed, popover, err, response>>
  /\ UNCHANGED <<userLists, sendListsTimer, submitClicks>>
  /\ CreateFrame
  /\ UNCHANGED nameStuck

\* the open call threw
CreateOpenFailed ==
  /\ msg = "CREATE_LIST"
  /\ pc = "open_throw"
  /\ AttemptFails(err, CreateMaxAttempts)
  /\ openClicks' = 0
  /\ UNCHANGED <<msg, msgCount, attempt>>
  /\ UNCHANGED <<pageVars, extractVars, notFlow>>
  /\ UNCHANGED <<steps, everClicked, confirmedOk, prevNode, untouched, everShown,
                 submitClicks>>
  /\ btnSeen' = "none"
  /\ UNCHANGED missedFirst
  /\ UNCHANGED <<navigated, itemPage, nameStuck>>

\* the open call returned: if (!dropdown) throw ...; wait 300
CreateAfterOpen ==
  /\ msg = "CREATE_LIST"
  /\ pc = "open_return"
  /\ IF popover = "none"
     THEN AttemptFails("Could not open list dropdown", CreateMaxAttempts)
     ELSE /\ pc' = "create_render_wait"
          /\ UNCHANGED <<iClick, elapsed, popover, err, response>>
  /\ openClicks' = 0
  /\ UNCHANGED <<msg, msgCount, attempt>>
  /\ UNCHANGED <<pageVars, extractVars, notFlow>>
  /\ UNCHANGED <<steps, everClicked, confirmedOk, prevNode, untouched, everShown,
                 submitClicks>>
  /\ btnSeen' = "none"
  /\ UNCHANGED missedFirst
  /\ UNCHANGED <<navigated, itemPage, nameStuck>>

\* after the 300 ms: find the create link, click it, wait 200
CreateFindLink ==
  /\ pc = "create_render_wait"
  /\ \E createLink \in BOOLEAN :
       IF ~createLink
       THEN AttemptFails("Could not find Create List link", CreateMaxAttempts)
       ELSE /\ pc' = "create_modal_wait"
            /\ iClick' = 0
            /\ UNCHANGED <<elapsed, popover, err, response>>
  /\ UNCHANGED <<userLists, sendListsTimer, submitClicks>>
  /\ CreateFrame
  /\ UNCHANGED nameStuck

\* after the 200 ms that follow a click on the create link: look for the modal
CreateModalPoll ==
  /\ pc = "create_modal_wait"
  /\ \E modal \in BOOLEAN :
       IF modal
       THEN /\ pc' = "create_modal_settle"     \* break; wait 500
            /\ iClick' = 0
            /\ UNCHANGED <<elapsed, popover, err, response>>
       ELSE IF iClick + 1 < CreateClickAttempts
       THEN /\ iClick' = iClick + 1
            /\ UNCHANGED <<pc, elapsed, popover, err, response>>
       ELSE AttemptFails("Create list modal did not appear after multiple attempts",
                         CreateMaxAttempts)
  /\ UNCHANGED <<userLists, sendListsTimer, submitClicks>>
  /\ CreateFrame
  /\ UNCHANGED nameStuck

\* after the 500 ms: find the name input, set it, wait 100
CreateFindInput ==
  /\ pc = "create_modal_settle"
  /\ \E nameInput \in BOOLEAN :
       IF ~nameInput
       THEN AttemptFails("Could not find list name input", CreateMaxAttempts)
       ELSE /\ pc' = "create_fill_wait"
            /\ iClick' = 0
            /\ UNCHANGED <<elapsed, popover, err, response>>
  /\ UNCHANGED <<userLists, sendListsTimer, submitClicks>>
  /\ CreateFrame
  /\ UNCHANGED nameStuck

SubmitsAnyway(valueSet) == TRUE

\* if (nameInput.value === listName) break; and, after the loop,
\* if (nameInput.value !== listName) throw ...: no await lies between the two
Stuck(valueSet) == valueSet

\* after the 100 ms: verify the value; when it is set, find the create button
\* and click it, then wait 3000
CreateFillPoll ==
  /\ pc = "create_fill_wait"
  /\ \E valueSet \in BOOLEAN, createButton \in BOOLEAN :
       /\ nameStuck' = valueSet
       /\ IF Stuck(valueSet)
          THEN IF ~createButton
               THEN /\ AttemptFails("Could not find create button", CreateMaxAttempts)
                    /\ UNCHANGED submitClicks
               ELSE /\ submitClicks' = submitClicks + 1
                    /\ pc' = "create_submit_wait"
                    /\ iClick' = 0
                    /\ UNCHANGED <<elapsed, popover, err, response>>
          ELSE IF iClick + 1 < FillAttempts
          THEN /\ iClick' = iClick + 1
               /\ UNCHANGED <<pc, elapsed, popover, err, response, submitClicks>>
          ELSE /\ AttemptFails("Could not set list name in input field",
                               CreateMaxAttempts)
               /\ UNCHANGED submitClicks
  /\ UNCHANGED <<userLists, sendListsTimer>>
  /\ CreateFrame

\* const popover = querySelector('.a-popover[aria-hidden="false"]') ||
\* querySelector('#atwl-popover-inner'); if (popover) extract; return success
CreateFinish ==
  LET found == "pop" \in shown \/ "inner" \in shown
  IN  /\ IF found THEN Extracted(xDom)
         ELSE UNCHANGED <<userLists, sendListsTimer>>
      /\ IF found /\ ExtractScan(xDom).threw
         THEN AttemptFails("SyntaxError", CreateMaxAttempts)
         ELSE /\ pc' = "idle"
              /\ response' = Success
              /\ popover' = "none"
              /\ UNCHANGED <<iClick, elapsed, err>>

\* after the 3000 ms that follow the click on the create button
CreateAfterSubmit ==
  /\ pc = "create_submit_wait"
  /\ \E modalStillOpen \in BOOLEAN :
       IF modalStillOpen
       THEN /\ pc' = "create_still_wait"       \* wait 2000
            /\ UNCHANGED <<iClick, elapsed, popover, err, response>>
            /\ UNCHANGED <<userLists, sendListsTimer>>
       ELSE CreateFinish
  /\ UNCHANGED submitClicks
  /\ CreateFrame
  /\ UNCHANGED nameStuck

\* after the further 2000 ms
CreateAfterStill ==
  /\ pc = "create_still_wait"
  /\ CreateFinish
  /\ UNCHANGED submitClicks
  /\ CreateFrame
  /\ UNCHANGED nameStuck

\* the delay between two attempts is over: the next attempt begins
CreateRetry ==
  /\ msg = "CREATE_LIST"
  /\ pc = "retry_wait"
  /\ attempt' = attempt + 1
  /\ pc' = "create_enter"
  /\ UNCHANGED <<msg, msgCount, iClick, elapsed, popover, err, response>>
  /\ UNCHANGED <<pageVars, extractVars, notFlow>>
  /\ UNCHANGED histVars

CreateStep ==
  \/ CreateEnter
  \/ CreateAfterDismiss
  \/ OpenAfterDismiss
  \/ CreateOpenFailed
  \/ CreateAfterOpen
  \/ CreateFindLink
  \/ CreateModalPoll
  \/ CreateFindInput
  \/ CreateFillPoll
  \/ CreateAfterSubmit
  \/ CreateAfterStill
  \/ CreateRetry

(***************************************************************************)
(* The host page and the timers, while a flow is suspended.                *)
(***************************************************************************)
\* The host page shows or hides an overlay element.
HostTogglesOverlay ==
  /\ pc \in AwaitPcs
  /\ \E n \in OverlayNodes :
       shown' = IF n \in shown THEN shown \ {n} ELSE shown \cup {n}
  /\ everShown' = (everShown \/ (msg = "ADD_TO_LIST" /\ pc # "idle"))
  /\ untouched' = FALSE
  /\ UNCHANGED <<innerFirst, storedFilter, inputVal, persist>>
  /\ UNCHANGED <<ctlVars, extractVars, notFlow>>
  /\ UNCHANGED <<steps, openClicks, everClicked, confirmedOk, prevNode,
                 submitClicks>>
  /\ UNCHANGED btnSeen
  /\ UNCHANGED missedFirst
  /\ UNCHANGED <<navigated, itemPage, nameStuck>>

\* The host page re-renders the spans of the overlay.
HostRendersSpans ==
  /\ pc \in AwaitPcs
  /\ xDom' \in FlowSamples \ {xDom}
  /\ UNCHANGED <<userLists, sendListsTimer, xLists, xThrew, xCalls, xSent>>
  /\ UNCHANGED <<flowVars, notFlow>>

\* The debounce timer of the list update fires.
FlowListsTimer ==
  /\ pc \in AwaitPcs
  /\ SendListsTimerFires
  /\ UNCHANGED <<flowVars, notFlow>>

HostStep == HostTogglesOverlay \/ HostRendersSpans \/ FlowListsTimer

\* The page goes to another item (history.pushState, popstate) while an
\* ADD_TO_LIST is suspended: the URL listeners call sendProductUpdate, which
\* replaces this.productInfo.  No step of the flow reads it.
HostNavigates ==
  /\ msg = "ADD_TO_LIST"
  /\ pc \in AwaitPcs \ {"idle"}
  /\ ~navigated
  /\ navigated' = TRUE
  /\ UNCHANGED <<pageVars, ctlVars, extractVars, notFlow>>
  /\ UNCHANGED <<steps, openClicks, everClicked, confirmedOk, prevNode,
                 untouched, everShown, submitClicks, btnSeen, missedFirst,
                 itemPage, nameStuck>>

FlowInit ==
  /\ RetryIdle
  /\ ConfirmIdle
  /\ ExtractIdle
  /\ WaitIdle
  /\ ParIdle
  /\ QuickIdle
  /\ BgIdle
  /\ DebounceIdle
  /\ FormIdle
  /\ SettingsIdle
  /\ FilterIdle
  /\ ClickIdle
  /\ FindIdle
  /\ shown = {}
  /\ innerFirst \in BOOLEAN
  /\ storedFilter = ""
  /\ inputVal = "none"
  /\ persist = TRUE
  /\ msg = "none"
  /\ msgCount = 0
  /\ pc = "idle"
  /\ attempt = 0
  /\ iClick = 0
  /\ elapsed = "lt"
  /\ popover = "none"
  /\ err = "none"
  /\ response = [type |-> "none"]
  /\ steps = <<>>
  /\ openClicks = 0
  /\ everClicked = FALSE
  /\ confirmedOk = FALSE
  /\ prevNode = "none"
  /\ untouched = FALSE
  /\ everShown = FALSE
  /\ submitClicks = 0
  /\ btnSeen = "none"
  /\ missedFirst = FALSE
  /\ navigated = FALSE
  /\ itemPage = FALSE
  /\ nameStuck = FALSE

\* REQUEST_LISTS messages, one after the other
Next ==
  \/ ReceiveRequestLists
  \/ OpenStep
  \/ RequestDone
  \/ HostStep

Spec == FlowInit /\ [][Next]_vars

\* timers fire and waits end: a step of the flow that is enabled is taken
FairSpec == Spec /\ WF_vars(OpenStep \/ RequestDone)

\* ADD_TO_LIST messages
NextAdd ==
  \/ ReceiveAddToList
  \/ OpenStep
  \/ AddStep
  \/ HostStep

\* #atwl-popover-inner lies inside the .a-popover
AddInit == FlowInit /\ ~innerFirst

SpecAdd == AddInit /\ [][NextAdd]_vars

FairSpecAdd == SpecAdd /\ WF_vars(OpenStep \/ AddStep)

\* ADD_TO_LIST messages on a page that navigates
NextNav == NextAdd \/ HostNavigates

SpecNav == AddInit /\ [][NextNav]_vars

\* CREATE_LIST messages
NextCreate ==
  \/ ReceiveCreateList
  \/ OpenStep
  \/ CreateStep
  \/ HostStep

SpecCreate == FlowInit /\ [][NextCreate]_vars

\* the onMessage listener receives a message of one of its three types
MessageTypes == {"REQUEST_LISTS", "ADD_TO_LIST", "CREATE_LIST"}

ReceiveAny ==
  \E type \in MessageTypes, p \in PageSignals :
    Receive(type, MaxAny, DetectProductPage(p),
            IF type = "CREATE_LIST" THEN "create_enter" ELSE "open_enter")

NextAny ==
  \/ ReceiveAny
  \/ OpenStep
  \/ RequestDone
  \/ AddStep
  \/ CreateStep
  \/ HostStep

SpecAny == AddInit /\ [][NextAny]_vars

\* The handlers and the host steps they read.  The list-update timer is left
\* out: its firing writes sendListsTimer and xSent only, which no step of a
\* handler reads.
NextAnswer ==
  \/ ReceiveAny
  \/ OpenStep
  \/ RequestDone
  \/ AddStep
  \/ CreateStep
  \/ HostTogglesOverlay
  \/ HostRendersSpans

\* timers fire and waits end: a step of a handler that is enabled is taken
FairSpecAny ==
  /\ AddInit
  /\ [][NextAnswer]_vars
  /\ WF_vars(OpenStep \/ RequestDone \/ AddStep \/ CreateStep)

\* C31: a message that arrives when detectProductPage() is false is answered
\* at once with success false and not_on_product_page, and its handler makes
\* no gesture: no click on the trigger, on a collection link or on the create
\* button, and no step of an attempt.
C31_GateBeforeGesture ==
  (msg # "none" /\ ~itemPage) =>
    /\ pc = "idle"
    /\ response = Failure("not_on_product_page")
    /\ openClicks = 0 /\ ~everClicked /\ submitClicks = 0
    /\ steps = <<>> /\ btnSeen = "none"

C31_Witness ==
  /\ msg = "REQUEST_LISTS" /\ ~itemPage
  /\ response = Failure("not_on_product_page")
  /\ shown = {"pop"}

\* C33: the create button is clicked only by the step whose verification
\* found the name input holding the requested name, after at most 3 fills;
\* and when the third verification still finds another value the attempt
\* fails and the button is not clicked.
C33_SubmitOnlyVerified ==
  /\ [][(submitClicks' > submitClicks) =>
          (pc = "create_fill_wait" /\ nameStuck' /\ iClick < FillAttempts)]_vars
  /\ [][(pc = "create_fill_wait" /\ pc' # pc /\ ~nameStuck') =>
          /\ iClick + 1 = FillAttempts
          /\ submitClicks' = submitClicks
          /\ pc' \in {"retry_wait", "idle"}]_vars
  /\ [](pc = "create_fill_wait" => iClick < FillAttempts)

\* the first attempt failed, the second clicked the button
C33_Witness ==
  /\ pc = "create_submit_wait" /\ nameStuck /\ submitClicks = 1 /\ attempt = 2

\* the value the caller of a handler receives: an object with a boolean
\* success and, when success is false, an error string
Answered(r) ==
  /\ r.type = "response"
  /\ r.success \in BOOLEAN
  /\ ~r.success => r.error \notin {"none", ""}

\* C32: every handler settles, and it settles by resolving with an object
\* that has a boolean success and, when success is false, an error string.
C32_AlwaysAnswers ==
  /\ []((msg # "none" /\ pc = "idle") => Answered(response))
  /\ []<>(pc = "idle")

C32_Witness ==
  /\ msg = "CREATE_LIST" /\ pc = "idle" /\ attempt = CreateMaxAttempts
  /\ response = Failure("Could not set list name in input field")

(***************************************************************************)
(* Two ADD_TO_LIST requests to one page.  Each click on a list button of   *)
(* the sidebar runs addToList, which sends a message; each message starts  *)
(* the async handler of the content script.  The handlers share the        *)
(* document, and each runs up to its next await in one task.               *)
(***************************************************************************)
ParInit ==
  /\ FlowIdle
  /\ RetryIdle
  /\ ConfirmIdle
  /\ ExtractIdle
  /\ WaitIdle
  /\ ParIdle
  /\ QuickIdle
  /\ BgIdle
  /\ DebounceIdle
  /\ FormIdle
  /\ SettingsIdle
  /\ FilterIdle
  /\ ClickIdle
  /\ FindIdle

InFlight(f) == fPc[f] \in {"open", "confirm", "wait"}

\* a throw inside the operation, caught by RetryManager.retry
ParAttemptFails(f) ==
  IF GivesUp(fAttempt[f], MAX_ATTEMPTS)
  THEN /\ fPc' = [fPc EXCEPT ![f] = "done"]
       /\ fResult' = [fResult EXCEPT ![f] = "failure"]
  ELSE /\ fPc' = [fPc EXCEPT ![f] = "wait"]
       /\ UNCHANGED fResult

\* button click -> addToList -> tabs.sendMessage -> the onMessage handler, up
\* to the await of openListDropdownAndWait.  Neither the sidebar nor the
\* handler looks at a request in progress.
SidebarAddToList(f) ==
  /\ fPc[f] = "idle"
  /\ \E onPage \in BOOLEAN :
       IF onPage
       THEN /\ fPc' = [fPc EXCEPT ![f] = "open"]
            /\ fAttempt' = [fAttempt EXCEPT ![f] = 1]
            /\ UNCHANGED fResult
       ELSE /\ fPc' = [fPc EXCEPT ![f] = "done"]
            /\ fResult' = [fResult EXCEPT ![f] = "failure"]
            /\ UNCHANGED fAttempt
  /\ UNCHANGED <<fConfirmedBy, docText, pendingClicks>>
  /\ UNCHANGED notPar

\* openListDropdownAndWait has returned: locate the link, click it, and run
\* the executor of waitForAddConfirmation with its first check()
ParLocateAndClick(f) ==
  /\ fPc[f] = "open"
  /\ \E opened \in BOOLEAN, linkElement \in BOOLEAN :
       IF opened /\ linkElement
       THEN /\ pendingClicks' = pendingClicks \cup {f}
            /\ IF docText # 0
               THEN /\ fPc' = [fPc EXCEPT ![f] = "done"]
                    /\ fResult' = [fResult EXCEPT ![f] = "success"]
                    /\ fConfirmedBy' = [fConfirmedBy EXCEPT ![f] = docText]
               ELSE /\ fPc' = [fPc EXCEPT ![f] = "confirm"]
                    /\ UNCHANGED <<fResult, fConfirmedBy>>
       ELSE /\ ParAttemptFails(f)
            /\ UNCHANGED <<fConfirmedBy, pendingClicks>>
  /\ UNCHANGED <<fAttempt, docText>>
  /\ UNCHANGED notPar

\* The page answers the click of request f with its success text; the
\* observer of every confirmation wait in progress runs check(), which
\* matches the text of the document.
HostAnswersClick(f) ==
  /\ f \in pendingClicks
  /\ pendingClicks' = pendingClicks \ {f}
  /\ docText' = f
  /\ fPc' = [g \in Flows |-> IF fPc[g] = "confirm" THEN "done" ELSE fPc[g]]
  /\ fResult' = [g \in Flows |->
                   IF fPc[g] = "confirm" THEN "success" ELSE fResult[g]]
  /\ fConfirmedBy' = [g \in Flows |->
                        IF fPc[g] = "confirm" THEN f ELSE fConfirmedBy[g]]
  /\ UNCHANGED fAttempt
  /\ UNCHANGED notPar

\* the page removes its success text
HostClearsText ==
  /\ docText # 0
  /\ docText' = 0
  /\ UNCHANGED <<fPc, fAttempt, fResult, fConfirmedBy, pendingClicks>>
  /\ UNCHANGED notPar

\* the timeout timer of a confirmation wait: resolve(false), then
\* throw new Error('Confirmation not received')
ParConfirmTimeout(f) ==
  /\ fPc[f] = "confirm"
  /\ ParAttemptFails(f)
  /\ UNCHANGED <<fAttempt, fConfirmedBy, docText, pendingClicks>>
  /\ UNCHANGED notPar

\* the retry delay of a request is over: attempt++
ParRetryWake(f) ==
  /\ fPc[f] = "wait"
  /\ fPc' = [fPc EXCEPT ![f] = "open"]
  /\ fAttempt' = [fAttempt EXCEPT ![f] = fAttempt[f] + 1]
  /\ UNCHANGED <<fResult, fConfirmedBy, docText, pendingClicks>>
  /\ UNCHANGED notPar

ParNext ==
  \/ \E f \in Flows : SidebarAddToList(f)
  \/ \E f \in Flows : ParLocateAndClick(f)
  \/ \E f \in Flows : HostAnswersClick(f)
  \/ HostClearsText
  \/ \E f \in Flows : ParConfirmTimeout(f)
  \/ \E f \in Flows : ParRetryWake(f)

SpecPar == ParInit /\ [][ParNext]_vars

\* C18: no two ADD_TO_LIST requests are in progress in one page at the same
\* time, and a request that succeeded was confirmed by the answer of the
\* page to its own click.
C18_NoParallelAdds ==
  /\ \A f \in Flows, g \in Flows : (f # g) => ~(InFlight(f) /\ InFlight(g))
  /\ \A f \in Flows : (fResult[f] = "success") => (fConfirmedBy[f] = f)

(***************************************************************************)
(* Properties of the message flows.                                        *)
(***************************************************************************)
IsSuccess(r) == r.type = "response" /\ r.success
IsFailure(r) == r.type = "response" /\ ~r.success

\* C4: an ADD_TO_LIST reports success only out of the confirmation wait, and
\* then the wait of the current attempt returned true and that attempt had
\* clicked the link just before the wait.
C4_SuccessOnlyAfterConfirmation ==
  /\ [](IsSuccess(response) =>
          /\ pc = "idle"
          /\ confirmedOk
          /\ Len(steps) >= 2
          /\ steps[Len(steps) - 1] = "click"
          /\ steps[Len(steps)] = "confirm")
  /\ [][(IsSuccess(response') /\ response' # response) => pc = "confirm_wait"]_vars

\* the second attempt succeeds after the first did not
C4_Witness ==
  /\ msg = "ADD_TO_LIST" /\ IsSuccess(response) /\ attempt = 2 /\ confirmedOk

IsPrefix(s, t) == Len(s) <= Len(t) /\ SubSeq(t, 1, Len(s)) = s

\* the step sequences of one attempt of handleAddToListAction
AttemptSteps ==
  {<<"open", "extract", "locate", "click", "confirm">>,
   <<"open", "locate", "click", "confirm">>,
   <<"open", "extract", "locate", "extract", "locate">>,
   <<"open", "locate", "extract", "locate">>}

Rank(step) ==
  CASE step = "open" -> 1
    [] step = "extract" -> 2
    [] step = "locate" -> 3
    [] step = "click" -> 4
    [] step = "confirm" -> 5

\* C5 as stated: the steps of an attempt happen strictly in the order open,
\* extract, locate, click, confirm.
C5_AsStated ==
  \A i, j \in 1..Len(steps) : i < j => Rank(steps[i]) < Rank(steps[j])

\* C5: the steps of an attempt begin one of: open, extract, locate, click,
\* confirm; the same without the extraction (the overlay was open already);
\* either of the two with an extraction and a second lookup after a lookup
\* that found nothing, and then no click.  The click directly follows a
\* lookup in the handle the open step returned, the confirmation wait
\* directly follows the click.
C5_StepOrder ==
  /\ \E t \in AttemptSteps : IsPrefix(steps, t)
  /\ \A i \in 1..Len(steps) :
       /\ steps[i] = "click" => (i > 1 /\ steps[i - 1] = "locate" /\ steps[1] = "open")
       /\ steps[i] = "confirm" => (i > 1 /\ steps[i - 1] = "click")

\* an attempt that opened the overlay itself and clicked the link
C5_Witness ==
  /\ pc = "confirm_wait"
  /\ steps = <<"open", "extract", "locate", "click", "confirm">>

\* C6: over one CREATE_LIST the create button is clicked at most once, and
\* exactly once when the call reports success.
C6_SubmitAtMostOnce ==
  /\ submitClicks <= 1
  /\ (msg = "CREATE_LIST" /\ IsSuccess(response)) => submitClicks = 1

\* C7: a second open call, made while the node the first one returned still
\* matches its selector and the host has changed no overlay since, returns
\* that node and clicks no trigger.
C7_SecondCallReturnsSame ==
  (/\ msg = "REQUEST_LISTS"
   /\ pc \notin {"idle", "open_enter"}
   /\ prevNode # "none"
   /\ untouched
   /\ prevNode \in shown)
  => (pc = "open_return" /\ popover = prevNode /\ openClicks = 0)

\* C8: an open call clicks the trigger at most MaxClickAttempts times; it
\* clicks only while no poll has found an overlay and the time since its start
\* is not beyond the timeout; it clicks no more once a poll has found one.
C8_TriggerClicksBounded ==
  /\ [](openClicks <= MaxClickAttempts)
  /\ [][openClicks' > openClicks =>
          (popover = "none" /\ popover' = "none" /\ elapsed' # "gt")]_vars
  /\ [][(pc \in {"open_settle", "open_return"}) => openClicks' <= openClicks]_vars

\* the ceiling is reached
C8_Witness ==
  /\ pc = "open_throw"
  /\ openClicks = MaxClickAttempts
  /\ err = "Dropdown did not open after multiple attempts"

OpenSettled == pc \in {"open_return", "open_throw"}

\* C9 as stated: every open call settles; it returns an overlay node or fails
\* with an overlay-open-timeout error.
C9_AsStated ==
  /\ (pc = "open_enter") ~> OpenSettled
  /\ [](pc = "open_return" => popover # "none")
  /\ [](pc = "open_throw" => ErrorClass(err) = "OverlayOpenTimeout")

\* C9: every open call settles; it returns a node that matched an overlay
\* selector when the call looked for it, or fails with an overlay-open-timeout
\* error, with the trigger-not-found error, or with the error the extraction
\* threw.
C9_OpenSettles ==
  /\ (pc = "open_enter") ~> OpenSettled
  /\ [](pc = "open_return" => popover # "none")
  /\ [](pc = "open_throw" =>
          \/ ErrorClass(err) \in {"OverlayOpenTimeout", "TriggerNotFound"}
          \/ err = "SyntaxError")

\* a call that found no trigger
C9_Witness ==
  /\ msg = "REQUEST_LISTS"
  /\ pc = "open_throw"
  /\ err = "Add-to-list dropdown button not found"

\* no overlay element matched during the ADD_TO_LIST that ran
NeverVisible == msg = "ADD_TO_LIST" /\ attempt >= 1 /\ ~everShown

\* C10 as stated: an ADD_TO_LIST during which no overlay becomes visible
\* resolves with success false and an overlay-open-timeout error, and clicks
\* no link.
C10_AsStated ==
  /\ (msg = "ADD_TO_LIST" /\ pc = "open_enter") ~> (pc = "idle")
  /\ [](NeverVisible => ~everClicked)
  /\ []((NeverVisible /\ pc = "idle") =>
          (IsFailure(response) /\ ErrorClass(response.error) = "OverlayOpenTimeout"))

\* C10: an ADD_TO_LIST during which no overlay becomes visible resolves with
\* success false and the error of its last attempt, an overlay-open-timeout
\* error or the trigger-not-found error, and clicks no link.
C10_NeverVisibleFails ==
  /\ (msg = "ADD_TO_LIST" /\ pc = "open_enter") ~> (pc = "idle")
  /\ [](NeverVisible => ~everClicked)
  /\ []((NeverVisible /\ pc = "idle") =>
          /\ IsFailure(response)
          /\ ErrorClass(response.error) \in {"OverlayOpenTimeout", "TriggerNotFound"})

\* all attempts clicked the trigger and saw no overlay
C10_Witness ==
  /\ NeverVisible
  /\ pc = "idle"
  /\ attempt = MAX_ATTEMPTS
  /\ response = Failure("Timeout waiting for dropdown to open")

\* C11: an open call that finds no trigger throws the trigger-not-found error
\* in the step that looked for it: it has clicked no trigger and entered no
\* pass of the click loop, and the lookup was the first of the call.
C11_TriggerNotFoundFailsFast ==
  /\ [](btnSeen = "missing" =>
          /\ pc = "open_throw"
          /\ err = "Add-to-list dropdown button not found"
          /\ openClicks = 0
          /\ iClick = 0)
  /\ [][(btnSeen' = "missing" /\ btnSeen # "missing") =>
          (btnSeen = "none" /\ pc \in {"open_enter", "open_dismiss_wait"})]_vars

\* a REQUEST_LISTS whose open call found no trigger
C11_Witness ==
  /\ msg = "REQUEST_LISTS"
  /\ btnSeen = "missing"
  /\ ErrorClass(err) = "TriggerNotFound"

Count(seq, x) == Cardinality({i \in 1..Len(seq) : seq[i] = x})

\* C12 as stated: an ADD_TO_LIST whose first attempt found no link and of
\* which a later attempt found it resolves success; the attempts never exceed
\* MAX_ATTEMPTS.
C12_AsStated ==
  /\ (msg = "ADD_TO_LIST" /\ pc = "open_enter") ~> (pc = "idle")
  /\ [](attempt <= MAX_ATTEMPTS)
  /\ []((msg = "ADD_TO_LIST" /\ pc = "idle" /\ missedFirst /\ everClicked) =>
          IsSuccess(response))

\* C12: every ADD_TO_LIST resolves; it resolves success in the attempt whose
\* confirmation wait returns true, which is not the first attempt when that
\* one found no link; the attempts never exceed MAX_ATTEMPTS, an attempt
\* makes at most one open call and at most one click on the link, and the
\* steps start afresh only with a new attempt.
C12_RetriesBounded ==
  /\ (msg = "ADD_TO_LIST" /\ pc = "open_enter") ~> (pc = "idle")
  /\ [](attempt <= MAX_ATTEMPTS)
  /\ []((missedFirst /\ IsSuccess(response)) => attempt \in 2..MAX_ATTEMPTS)
  /\ []((msg = "ADD_TO_LIST" /\ confirmedOk) => (IsSuccess(response) /\ pc = "idle"))
  /\ [](Count(steps, "open") <= 1 /\ Count(steps, "click") <= 1)
  /\ [][(steps' = <<>> /\ steps # <<>>) => (attempt' = attempt + 1 \/ pc = "idle")]_vars

\* the link is missing in the first attempt, and the second succeeds
C12_Witness ==
  /\ msg = "ADD_TO_LIST" /\ missedFirst /\ IsSuccess(response) /\ attempt = 2

\* C13: once the item of the page has changed during an ADD_TO_LIST, the
\* call starts no further attempt, clicks no trigger and no link, and
\* resolves with success false and the reason NavigationDuringAction.
C13_NavigationAborts ==
  /\ []((navigated /\ pc = "idle") => response = Failure("NavigationDuringAction"))
  /\ [][navigated =>
          /\ attempt' = attempt
          /\ openClicks' <= openClicks
          /\ Count(steps', "click") <= Count(steps, "click")]_vars

(***************************************************************************)
(* FilterPersistence, the search field of the overlay, and the steps of    *)
(* the flows that touch them.                                              *)
(***************************************************************************)
FilterStrings == {"", "a", "b"}

FilterInit ==
  /\ FlowIdle
  /\ RetryIdle
  /\ ConfirmIdle
  /\ ExtractIdle
  /\ WaitIdle
  /\ ParIdle
  /\ QuickIdle
  /\ BgIdle
  /\ DebounceIdle
  /\ FormIdle
  /\ SettingsIdle
  /\ FindIdle
  /\ ClickIdle
  /\ fpAvail \in BOOLEAN
  /\ fpSlot = "none"
  /\ fpInput \in {"none", ""}
  /\ fpListener = FALSE
  /\ fpPersist \in BOOLEAN
  /\ fpMsg = "none"
  /\ fpPc = "idle"
  /\ fpAttempt = 0
  /\ fpFlows = 0
  /\ fpOpenRes = "none"
  /\ fpOp = "none"
  /\ fpLast = ""
  /\ fpRet = ""
  /\ fpThrew = FALSE

RawItem(item) == item

\* sessionStorage.getItem(key) || ''
OrEmpty(item) == IF item = "none" THEN "" ELSE item

EscapesUnguarded(avail) == ~avail

\* try { ... } catch (_) {}: the exception of an unusable storage does not
\* leave the method
Escapes(avail) == FALSE

\* save(value): sessionStorage.setItem(key, value || '')
SaveSlot(slot, v) == IF fpAvail THEN v ELSE slot
\* clear(): sessionStorage.removeItem(key)
ClearSlot(slot) == IF fpAvail THEN "none" ELSE slot
\* restore()
RestoreFrom(slot) == IF fpAvail THEN OrEmpty(slot) ELSE ""

\* positions at which the flow is suspended and the user or another caller
\* gets a turn
FilterAwaitPcs == {"idle", "opening", "confirm", "retry"}

\* a call of save(v)
FpSave(v) ==
  /\ fpPc \in FilterAwaitPcs
  /\ fpSlot' = SaveSlot(fpSlot, v)
  /\ fpOp' = "save"
  /\ fpLast' = v
  /\ fpThrew' = (fpThrew \/ Escapes(fpAvail))
  /\ UNCHANGED <<fpAvail, fpInput, fpListener, fpPersist, fpMsg, fpPc,
                 fpAttempt, fpFlows, fpOpenRes, fpRet>>
  /\ UNCHANGED notFilter

\* a call of restore()
FpRestore ==
  /\ fpPc \in FilterAwaitPcs
  /\ fpRet' = RestoreFrom(fpSlot)
  /\ fpOp' = "restore"
  /\ fpThrew' = (fpThrew \/ Escapes(fpAvail))
  /\ UNCHANGED <<fpAvail, fpSlot, fpInput, fpListener, fpPersist, fpMsg, fpPc,
                 fpAttempt, fpFlows, fpOpenRes, fpLast>>
  /\ UNCHANGED notFilter

\* a call of clear()
FpClear ==
  /\ fpPc \in FilterAwaitPcs
  /\ fpSlot' = ClearSlot(fpSlot)
  /\ fpOp' = "clear"
  /\ fpLast' = ""
  /\ fpThrew' = (fpThrew \/ Escapes(fpAvail))
  /\ UNCHANGED <<fpAvail, fpInput, fpListener, fpPersist, fpMsg, fpPc,
                 fpAttempt, fpFlows, fpOpenRes, fpRet>>
  /\ UNCHANGED notFilter

\* The user types into the search field; an input that carries the listener
\* of findListSearchInput saves its value.
UserTypes(v) ==
  /\ fpPc \in FilterAwaitPcs
  /\ fpInput \notin {"none", v}
  /\ fpInput' = v
  /\ IF fpListener
     THEN /\ fpSlot' = SaveSlot(fpSlot, v)
          /\ fpOp' = "save"
          /\ fpLast' = v
          /\ fpThrew' = (fpThrew \/ Escapes(fpAvail))
     ELSE UNCHANGED <<fpSlot, fpOp, fpLast, fpThrew>>
  /\ UNCHANGED <<fpAvail, fpListener, fpPersist, fpMsg, fpPc, fpAttempt,
                 fpFlows, fpOpenRes, fpRet>>
  /\ UNCHANGED notFilter

\* the host page renders the overlay anew: a fresh input, or none
FilterHostRenders ==
  /\ fpPc \in FilterAwaitPcs
  /\ fpInput' \in {"none", ""}
  /\ fpListener' = FALSE
  /\ fpInput' # fpInput \/ fpListener
  /\ UNCHANGED <<fpAvail, fpSlot, fpPersist, fpMsg, fpPc, fpAttempt, fpFlows,
                 fpOpenRes, fpOp, fpLast, fpRet, fpThrew>>
  /\ UNCHANGED notFilter

\* this.filterPersistence.clear(); this.setListFilterValue(popover, ''):
\* findListSearchInput attaches the listener, and the input event of an
\* input whose value changes saves ''
WipeFilter ==
  /\ fpSlot' = IF fpInput \in {"none", ""}
               THEN ClearSlot(fpSlot)
               ELSE SaveSlot(ClearSlot(fpSlot), "")
  /\ fpInput' = IF fpInput = "none" THEN "none" ELSE ""
  /\ fpListener' = (fpListener \/ fpInput # "none")
  /\ fpOp' = IF fpInput \in {"none", ""} THEN "clear" ELSE "save"
  /\ fpLast' = ""
  /\ fpThrew' = (fpThrew \/ Escapes(fpAvail))

NoWipe == UNCHANGED <<fpSlot, fpInput, fpListener, fpOp, fpLast, fpThrew>>

\* the onMessage handler of REQUEST_LISTS or ADD_TO_LIST, up to the first
\* await of openListDropdownAndWait
FilterReceive(type) ==
  /\ fpPc = "idle"
  /\ fpFlows < MaxFilterFlows
  /\ fpFlows' = fpFlows + 1
  /\ fpMsg' = type
  /\ fpPc' = "opening"
  /\ fpAttempt' = IF type = "ADD_TO_LIST" THEN 1 ELSE 0
  /\ fpOpenRes' = "none"
  /\ NoWipe
  /\ UNCHANGED <<fpAvail, fpPersist, fpRet>>
  /\ UNCHANGED notFilter

\* a throw inside the flow: RetryManager.retry around the add, the catch of
\* the handler around REQUEST_LISTS
FilterAttemptFails ==
  IF fpMsg = "ADD_TO_LIST" /\ ~GivesUp(fpAttempt, MAX_ATTEMPTS)
  THEN fpPc' = "retry" /\ UNCHANGED fpMsg
  ELSE fpPc' = "idle" /\ fpMsg' = "none"

\* openListDropdownAndWait ends: with the overlay that is already there, with
\* the one it opened (then it wipes the filter), or with a throw
FilterOpenEnds ==
  /\ fpPc = "opening"
  /\ \E res \in {"existing", "opened", "failed"} :
       /\ fpOpenRes' = res
       /\ IF res = "opened" THEN WipeFilter ELSE NoWipe
       /\ IF res = "failed" THEN FilterAttemptFails
          ELSE IF fpMsg = "ADD_TO_LIST"
          THEN fpPc' = "opened" /\ UNCHANGED fpMsg
          ELSE fpPc' = "idle" /\ fpMsg' = "none"
  /\ UNCHANGED <<fpAvail, fpPersist, fpAttempt, fpFlows, fpRet>>
  /\ UNCHANGED notFilter

WipesAlways(setting) == TRUE

\* if (!this.persistDropdownSearch)
WipesAfterClick(setting) == ~setting

\* handleAddToListAction after the open: locate the link, click it, wipe the
\* filter if the setting is off, start the confirmation wait
FilterLocateAndClick ==
  /\ fpPc = "opened"
  /\ \E linkElement \in BOOLEAN :
       IF linkElement
       THEN /\ fpPc' = "confirm"
            /\ UNCHANGED fpMsg
            /\ IF WipesAfterClick(fpPersist) THEN WipeFilter ELSE NoWipe
       ELSE FilterAttemptFails /\ NoWipe
  /\ UNCHANGED <<fpAvail, fpPersist, fpAttempt, fpFlows, fpOpenRes, fpRet>>
  /\ UNCHANGED notFilter

\* the confirmation wait returns: on true, clear() if the setting is off
FilterConfirmEnds ==
  /\ fpPc = "confirm"
  /\ \E confirmed \in BOOLEAN :
       IF confirmed
       THEN /\ fpPc' = "idle"
            /\ fpMsg' = "none"
            /\ IF WipesAfterClick(fpPersist)
               THEN /\ fpSlot' = ClearSlot(fpSlot)
                    /\ fpOp' = "clear"
                    /\ fpLast' = ""
                    /\ fpThrew' = (fpThrew \/ Escapes(fpAvail))
                    /\ UNCHANGED <<fpInput, fpListener>>
               ELSE NoWipe
       ELSE FilterAttemptFails /\ NoWipe
  /\ UNCHANGED <<fpAvail, fpPersist, fpAttempt, fpFlows, fpOpenRes, fpRet>>
  /\ UNCHANGED notFilter

\* the retry delay is over: attempt++
FilterRetryWake ==
  /\ fpPc = "retry"
  /\ fpPc' = "opening"
  /\ fpAttempt' = fpAttempt + 1
  /\ NoWipe
  /\ UNCHANGED <<fpAvail, fpPersist, fpMsg, fpFlows, fpOpenRes, fpRet>>
  /\ UNCHANGED notFilter

FilterNext ==
  \/ \E v \in FilterStrings : FpSave(v)
  \/ FpRestore
  \/ FpClear
  \/ \E v \in FilterStrings : UserTypes(v)
  \/ FilterHostRenders
  \/ \E type \in {"REQUEST_LISTS", "ADD_TO_LIST"} : FilterReceive(type)
  \/ FilterOpenEnds
  \/ FilterLocateAndClick
  \/ FilterConfirmEnds
  \/ FilterRetryWake

SpecFilter == FilterInit /\ [][FilterNext]_vars

\* C27: with the setting on, a filter string that is stored when
\* openListDropdownAndWait ends with an overlay is still stored after it and
\* is the value of the overlay's search field.
C27_FilterSurvivesOpen ==
  [][(/\ fpPc = "opening" /\ fpPc' # "opening"
      /\ fpOpenRes' \in {"existing", "opened"}
      /\ fpPersist /\ OrEmpty(fpSlot) # "")
       => (fpSlot' = fpSlot /\ fpInput' \in {"none", fpSlot})]_vars

\* the stored filter reads as empty and the search field is empty
Wiped(slot, input) == RestoreFrom(slot) = "" /\ input \in {"none", ""}

\* C28: the step of handleAddToListAction that clicks the link wipes the
\* stored filter and the search field if the setting is off and leaves both
\* as they are if it is on; its other steps (a link not found, the end of
\* the confirmation wait) leave the search field as it is, and the stored
\* filter too if the setting is on.
C28_WipeFollowsSetting ==
  /\ [][(fpPc = "opened" /\ fpPc' = "confirm") =>
          IF fpPersist
          THEN fpSlot' = fpSlot /\ fpInput' = fpInput
          ELSE Wiped(fpSlot', fpInput')]_vars
  /\ [][(fpPc = "opened" /\ fpPc' # "confirm") =>
          (fpSlot' = fpSlot /\ fpInput' = fpInput)]_vars
  /\ [][(fpPc = "confirm" /\ fpPc' # "confirm") =>
          /\ fpInput' = fpInput
          /\ fpPersist => fpSlot' = fpSlot]_vars

\* the setting is on, the user's filter is stored and shown, and the link
\* has been clicked
C28_Witness ==
  /\ fpPc = "confirm" /\ fpPersist /\ fpAvail
  /\ fpSlot = "a" /\ fpInput = "a"

\* C29: no method of FilterPersistence throws; restore() returns the
\* argument of the most recent save, the empty string after a clear and when
\* nothing was saved, and the empty string when the storage cannot be used.
C29_RoundTrip ==
  /\ ~fpThrew
  /\ (fpOp = "restore") => fpRet = (IF fpAvail THEN fpLast ELSE "")

C29_Witness ==
  /\ fpOp = "restore" /\ fpAvail /\ fpRet = "b" /\ fpInput = "b"

(***************************************************************************)
(* The persist-after-click setting.  The sidebar writes it to storage.sync *)
(* the content script reads it once with loadSettings and follows it with  *)
(* the storage.onChanged listener.  The answer of the get and the change   *)
(* notifications reach the content script as separate tasks; the code      *)
(* orders them in no way.                                                  *)
(***************************************************************************)
SettingsInit ==
  /\ FlowIdle
  /\ RetryIdle
  /\ ConfirmIdle
  /\ ExtractIdle
  /\ WaitIdle
  /\ ParIdle
  /\ QuickIdle
  /\ BgIdle
  /\ DebounceIdle
  /\ FormIdle
  /\ FindIdle
  /\ ClickIdle
  /\ FilterIdle
  /\ sStored \in {"true", "false", "absent"}
  /\ sMem = "true"            \* constructor: this.persistDropdownSearch = true
  /\ sLoad = "idle"
  /\ sReply = "absent"
  /\ sEvents = <<>>
  /\ sToggles = 0
  /\ sUsed = "none"

\* (typeof v === 'boolean') ? v : true
BooleanOrTrue(v) == IF v \in {"true", "false"} THEN v ELSE "true"

\* the toggle of the sidebar shows the stored setting (on when none is
\* stored) and is changed to the other value
Toggled(v) == IF BooleanOrTrue(v) = "true" THEN "false" ELSE "true"

\* initialize() on a product page: this.loadSettings(), up to its await
LoadSettings ==
  /\ sLoad = "idle"
  /\ sLoad' = "sent"
  /\ UNCHANGED <<sStored, sMem, sReply, sEvents, sToggles, sUsed>>
  /\ UNCHANGED notSettings

\* the storage serves browser.storage.sync.get, or fails to
StorageAnswersGet ==
  /\ sLoad = "sent"
  /\ \E ok \in BOOLEAN :
       IF ok
       THEN sLoad' = "replied" /\ sReply' = sStored
       ELSE sLoad' = "failed" /\ sReply' = "failed"
  /\ UNCHANGED <<sStored, sMem, sEvents, sToggles, sUsed>>
  /\ UNCHANGED notSettings

\* loadSettings resumes after its await
LoadSettingsResumes ==
  /\ sLoad \in {"replied", "failed"}
  /\ sMem' = IF sLoad = "replied" THEN BooleanOrTrue(sReply) ELSE "true"
  /\ sLoad' = "done"
  /\ UNCHANGED <<sStored, sReply, sEvents, sToggles, sUsed>>
  /\ UNCHANGED notSettings

\* the user changes the toggle: storage.sync.set({persistDropdownSearch: v})
\* and the change notification it causes
SidebarSetsPersist ==
  /\ sToggles < MaxToggles
  /\ sToggles' = sToggles + 1
  /\ sStored' = Toggled(sStored)
  /\ sEvents' = Append(sEvents, sStored')
  /\ UNCHANGED <<sMem, sLoad, sReply, sUsed>>
  /\ UNCHANGED notSettings

\* the storage.onChanged listener of the content script
StorageChanged ==
  /\ sEvents # <<>>
  /\ sMem' = BooleanOrTrue(Head(sEvents))
  /\ sEvents' = Tail(sEvents)
  /\ UNCHANGED <<sStored, sLoad, sReply, sToggles, sUsed>>
  /\ UNCHANGED notSettings

\* an add flow reads this.persistDropdownSearch after its click
AddReadsPersist ==
  /\ sLoad # "idle"
  /\ sUsed' = sMem
  /\ sUsed' # sUsed
  /\ UNCHANGED <<sStored, sMem, sLoad, sReply, sEvents, sToggles>>
  /\ UNCHANGED notSettings

SettingsNext ==
  \/ LoadSettings
  \/ StorageAnswersGet
  \/ LoadSettingsResumes
  \/ SidebarSetsPersist
  \/ StorageChanged
  \/ AddReadsPersist

SpecSettings == SettingsInit /\ [][SettingsNext]_vars

\* C30: when the get of loadSettings was served and its answer and every
\* change notification have been handled, the in-memory setting is the
\* stored one (on when none is stored); and a change notification is not
\* undone: after one was handled the in-memory setting changes only by a
\* later notification, so that the add flows that start later use it.
C30_SettingFollowsStorage ==
  /\ []((sLoad = "done" /\ sReply # "failed" /\ sEvents = <<>>)
          => sMem = BooleanOrTrue(sStored))
  /\ [][(sToggles > Len(sEvents) /\ sEvents' = sEvents) => sMem' = sMem]_vars
(***************************************************************************)
(* The create-list form of the sidebar (src/sidebar/panel.js).  A click on *)
(* the submit button runs an async handler; the browser dispatches no      *)
(* click to a disabled button and no key event to a disabled input.        *)
(***************************************************************************)
Upper == "A"
Lower == "a"
NameChars == {Blank, Lower, Upper}
NameValues == SeqsUpTo(NameChars, MaxNameLen)
ListNames == {<<Upper>>, <<Lower, Lower>>}

FormInit ==
  /\ FlowIdle
  /\ RetryIdle
  /\ ConfirmIdle
  /\ ExtractIdle
  /\ WaitIdle
  /\ ParIdle
  /\ QuickIdle
  /\ BgIdle
  /\ DebounceIdle
  /\ FindIdle
  /\ ClickIdle
  /\ FilterIdle
  /\ SettingsIdle
  /\ cfName = <<>>
  /\ cfLists \in SUBSET ListNames
  /\ cfShown = FALSE
  /\ cfDisabled = [submit |-> FALSE, cancel |-> FALSE, name |-> FALSE]
  /\ cfPc = [i \in 1..MaxSubmits |-> "idle"]
  /\ cfListName = [i \in 1..MaxSubmits |-> <<>>]
  /\ cfSent = <<>>
  /\ cfRuns = 0
  /\ cfFeedback = "none"

\* String.prototype.toLowerCase
ToLowerCase(t) == [i \in 1..Len(t) |-> IF t[i] = Upper THEN Lower ELSE t[i]]

NeverDuplicate(lists, listName) == FALSE

\* this.allLists.find(list => list.name.toLowerCase() === listName.toLowerCase())
DuplicateList(lists, listName) ==
  \E name \in lists : ToLowerCase(name) = ToLowerCase(listName)

FormLeftEnabled == [submit |-> FALSE, cancel |-> FALSE, name |-> FALSE]

\* createListSubmit.disabled = true; createListCancel.disabled = true;
\* newListName.disabled = true
FormDisabled == [submit |-> TRUE, cancel |-> TRUE, name |-> TRUE]

\* finally: the three controls are enabled again
FormEnabled == [submit |-> FALSE, cancel |-> FALSE, name |-> FALSE]

\* the createListBtn click handler
ShowForm ==
  /\ ~cfShown
  /\ cfShown' = TRUE
  /\ UNCHANGED <<cfName, cfLists, cfDisabled, cfPc, cfListName, cfSent, cfRuns,
                 cfFeedback>>
  /\ UNCHANGED notForm

\* the user edits the name input
UserTypesName ==
  /\ cfShown /\ ~cfDisabled.name
  /\ cfName' \in NameValues \ {cfName}
  /\ UNCHANGED <<cfLists, cfShown, cfDisabled, cfPc, cfListName, cfSent, cfRuns,
                 cfFeedback>>
  /\ UNCHANGED notForm

\* the createListCancel click handler
CancelClick ==
  /\ cfShown /\ ~cfDisabled.cancel
  /\ cfName' = <<>>
  /\ cfShown' = FALSE
  /\ UNCHANGED <<cfLists, cfDisabled, cfPc, cfListName, cfSent, cfRuns, cfFeedback>>
  /\ UNCHANGED notForm

\* an UPDATE_LISTS message replaces this.allLists
ListsUpdated ==
  /\ cfLists' \in (SUBSET ListNames) \ {cfLists}
  /\ UNCHANGED <<cfName, cfShown, cfDisabled, cfPc, cfListName, cfSent, cfRuns,
                 cfFeedback>>
  /\ UNCHANGED notForm

\* the createListSubmit click handler, up to its return or its first await
SubmitHandler ==
  LET i == cfRuns + 1
      listName == Trim(cfName)
  IN  /\ cfRuns < MaxSubmits
      /\ cfRuns' = i
      /\ IF listName = <<>>
         THEN /\ cfFeedback' = "warning"
              /\ cfPc' = [cfPc EXCEPT ![i] = "returned"]
              /\ UNCHANGED <<cfDisabled, cfListName>>
         ELSE IF DuplicateList(cfLists, listName)
         THEN /\ cfFeedback' = "error"
              /\ cfPc' = [cfPc EXCEPT ![i] = "returned"]
              /\ UNCHANGED <<cfDisabled, cfListName>>
         ELSE /\ cfDisabled' = FormDisabled
              /\ cfFeedback' = "loading"
              /\ cfPc' = [cfPc EXCEPT ![i] = "query"]
              /\ cfListName' = [cfListName EXCEPT ![i] = listName]
      /\ UNCHANGED <<cfName, cfLists, cfShown, cfSent>>
      /\ UNCHANGED notForm

\* a click on the submit button
SubmitClick ==
  /\ cfShown /\ ~cfDisabled.submit
  /\ SubmitHandler

\* the keypress handler of the name input: Enter calls createListSubmit.click()
EnterKey ==
  /\ cfShown /\ ~cfDisabled.name
  /\ ~cfDisabled.submit
  /\ SubmitHandler

\* browser.tabs.query settles: the message is sent to tabs[0], or the query
\* rejects or finds no tab and the catch and finally blocks run
TabsQuerySettles ==
  \E i \in 1..MaxSubmits, tab \in BOOLEAN :
    /\ cfPc[i] = "query"
    /\ IF tab
       THEN /\ cfSent' = Append(cfSent, cfListName[i])
            /\ cfPc' = [cfPc EXCEPT ![i] = "sent"]
            /\ UNCHANGED <<cfDisabled, cfFeedback>>
       ELSE /\ cfFeedback' = "error"
            /\ cfDisabled' = FormEnabled
            /\ cfPc' = [cfPc EXCEPT ![i] = "done"]
            /\ UNCHANGED cfSent
    /\ UNCHANGED <<cfName, cfLists, cfShown, cfListName, cfRuns>>
    /\ UNCHANGED notForm

\* browser.tabs.sendMessage settles
ResponseArrives ==
  \E i \in 1..MaxSubmits, outcome \in {"success", "failure", "rejected"} :
    /\ cfPc[i] = "sent"
    /\ IF outcome = "success"
       THEN /\ cfFeedback' = "success"
            /\ cfName' = <<>>
            /\ cfShown' = FALSE
       ELSE /\ cfFeedback' = "error"
            /\ UNCHANGED <<cfName, cfShown>>
    /\ cfDisabled' = FormEnabled
    /\ cfPc' = [cfPc EXCEPT ![i] = "done"]
    /\ UNCHANGED <<cfLists, cfListName, cfSent, cfRuns>>
    /\ UNCHANGED notForm

FormNext ==
  \/ ShowForm
  \/ UserTypesName
  \/ CancelClick
  \/ ListsUpdated
  \/ SubmitClick
  \/ EnterKey
  \/ TabsQuerySettles
  \/ ResponseArrives

SpecForm == FormInit /\ [][FormNext]_vars

\* C34: a run of the submit handler goes on to send a request only when the
\* trimmed value of the name input is not empty and equals, letter case
\* aside, the name of no list in allLists; otherwise it returns and leaves
\* the three controls enabled and sends nothing.  Every CREATE_LIST message
\* carries the trimmed name of a run that went on.
C34_SendsOnlyValidNames ==
  /\ [][(cfRuns' # cfRuns) =>
          IF /\ Trim(cfName) # <<>>
             /\ \A name \in cfLists : ToLowerCase(name) # ToLowerCase(Trim(cfName))
          THEN /\ cfPc'[cfRuns'] = "query"
               /\ cfListName'[cfRuns'] = Trim(cfName)
          ELSE /\ cfPc'[cfRuns'] = "returned"
               /\ cfSent' = cfSent
               /\ cfDisabled' = FormEnabled]_vars
  /\ [][(cfSent' # cfSent) =>
          \E i \in 1..MaxSubmits :
            /\ cfPc[i] = "query" /\ cfPc'[i] = "sent"
            /\ cfSent' = Append(cfSent, cfListName[i])]_vars
  /\ [](\A i \in 1..MaxSubmits : cfPc[i] = "returned" => cfListName[i] = <<>>)

\* a name was refused, then the trimmed value of the input was sent
C34_Witness ==
  /\ cfPc[1] = "returned" /\ cfPc[2] = "sent"
  /\ cfSent = <<<<Upper>>>>
  /\ cfName = <<Blank, Upper>>
  /\ cfLists = {<<Lower, Lower>>}

\* the CREATE_LIST requests sent and not answered
CreateInFlight == {i \in 1..MaxSubmits : cfPc[i] = "sent"}

\* C35: at most one CREATE_LIST request is in flight; while a run of the
\* handler is between its validation and its finally block the submit, cancel
\* and name controls are disabled, and no further run starts; when no run is
\* there the controls are enabled.
C35_OneCreateInFlight ==
  /\ [](Cardinality(CreateInFlight) <= 1)
  /\ []((\E i \in 1..MaxSubmits : cfPc[i] \in {"query", "sent"})
          => cfDisabled = FormDisabled)
  /\ []((\A i \in 1..MaxSubmits : cfPc[i] \notin {"query", "sent"})
          => cfDisabled = FormEnabled)
  /\ [][(\E i \in 1..MaxSubmits : cfPc[i] \in {"query", "sent"})
          => cfRuns' = cfRuns]_vars

\* a request failed, the controls were enabled again and a second was sent
C35_Witness ==
  /\ cfPc[1] = "done" /\ cfPc[2] = "sent"
  /\ Len(cfSent) = 2
  /\ cfDisabled = FormDisabled
(***************************************************************************)
(* The debounced UPDATE_LISTS message.  The observer of interceptListData  *)
(* schedules extractions, the handlers extract directly; a non-empty       *)
(* extraction calls queueSendListsUpdate, whose timer sends the message.   *)
(***************************************************************************)
\* what an extraction finds in the node it is given
DebounceSamples ==
  {<<>>,
   <<[id |-> <<NamePrefix, "A">>, text |-> <<"Books">>]>>,
   <<[id |-> <<NamePrefix, "B">>, text |-> <<"Books">>]>>,
   <<[id |-> <<NamePrefix, BadCh>>, text |-> <<"Books">>]>>}

ProductInfos == {"p1", "p2"}

DebounceInit ==
  /\ FlowIdle
  /\ RetryIdle
  /\ ConfirmIdle
  /\ ExtractIdle
  /\ WaitIdle
  /\ ParIdle
  /\ QuickIdle
  /\ BgIdle
  /\ FindIdle
  /\ ClickIdle
  /\ FilterIdle
  /\ SettingsIdle
  /\ FormIdle
  /\ dbTimer = FALSE
  /\ dbPending = 0
  /\ dbLists = <<>>
  /\ dbInfo \in ProductInfos
  /\ dbScheduled = 0
  /\ dbMsgs = <<>>
  /\ dbWindows = 0
  /\ dbExtracts = 0

NeverClears(timer) == FALSE

\* if (this.sendListsTimer) clearTimeout(this.sendListsTimer)
Clears(timer) == timer

\* queueSendListsUpdate(): the pending timer is cleared, a new one is set
QueueSendListsUpdate ==
  /\ dbPending' = (IF Clears(dbTimer) THEN dbPending - 1 ELSE dbPending) + 1
  /\ dbTimer' = TRUE
  /\ dbWindows' = IF dbTimer THEN dbWindows ELSE dbWindows + 1

\* extractListsFromDropdown(node)
DebounceExtract(node) ==
  LET r == ExtractScan(node)
  IN  /\ dbExtracts' = dbExtracts + 1
      /\ IF ~r.threw /\ NonEmpty(r.lists)
         THEN dbLists' = r.lists /\ QueueSendListsUpdate
         ELSE UNCHANGED <<dbLists, dbTimer, dbPending, dbWindows>>

\* the observer of interceptListData sees an overlay node added or shown:
\* setTimeout(() => { try { extract } catch (_) {} }, 100)
ObserverSchedules ==
  /\ dbExtracts + dbScheduled < MaxDebounceExtracts
  /\ dbScheduled' = dbScheduled + 1
  /\ UNCHANGED <<dbTimer, dbPending, dbLists, dbInfo, dbMsgs, dbWindows, dbExtracts>>
  /\ UNCHANGED notDebounce

\* an extraction timer of interceptListData fires
ScheduledExtraction ==
  /\ dbScheduled > 0
  /\ dbScheduled' = dbScheduled - 1
  /\ \E node \in DebounceSamples : DebounceExtract(node)
  /\ UNCHANGED <<dbInfo, dbMsgs>>
  /\ UNCHANGED notDebounce

\* a message handler calls extractListsFromDropdown
HandlerExtraction ==
  /\ dbExtracts + dbScheduled < MaxDebounceExtracts
  /\ \E node \in DebounceSamples : DebounceExtract(node)
  /\ UNCHANGED <<dbInfo, dbScheduled, dbMsgs>>
  /\ UNCHANGED notDebounce

\* a list-update timer fires: this.sendListsTimer = null; sendListsToSidebar()
UpdateTimerFires ==
  /\ dbPending > 0
  /\ dbPending' = dbPending - 1
  /\ dbTimer' = FALSE
  /\ dbMsgs' = Append(dbMsgs, [lists |-> dbLists, productInfo |-> dbInfo])
  /\ UNCHANGED <<dbLists, dbInfo, dbScheduled, dbWindows, dbExtracts>>
  /\ UNCHANGED notDebounce

\* sendProductUpdate(): the page shows another item
ProductChanges ==
  /\ dbInfo' \in ProductInfos \ {dbInfo}
  /\ UNCHANGED <<dbTimer, dbPending, dbLists, dbScheduled, dbMsgs, dbWindows,
                 dbExtracts>>
  /\ UNCHANGED notDebounce

DebounceNext ==
  \/ ObserverSchedules
  \/ ScheduledExtraction
  \/ HandlerExtraction
  \/ UpdateTimerFires
  \/ ProductChanges

SpecDebounce == DebounceInit /\ [][DebounceNext]_vars

\* C37: at most one list-update timer is pending; the extractions between
\* one quiet moment and the next firing of the timer produce one message in
\* all (the messages sent and the timer pending number as many as the
\* debounce windows begun); a message is sent only by the firing of the
\* timer and carries the records and the item context of that moment.
C37_OneDebouncedUpdate ==
  /\ [](dbPending <= 1)
  /\ [](Len(dbMsgs) + dbPending = dbWindows)
  /\ [][(dbMsgs' # dbMsgs) =>
          /\ dbMsgs' = Append(dbMsgs, [lists |-> dbLists, productInfo |-> dbInfo])
          /\ dbPending = 1 /\ dbPending' = 0]_vars

\* three extractions, the item changed, one message with the latest records
C37_Witness ==
  /\ dbExtracts = 3 /\ dbWindows = 1 /\ dbInfo = "p2"
  /\ dbMsgs = <<[lists |-> dbLists, productInfo |-> "p2"]>>
  /\ dbLists = ExtractScan(<<[id |-> <<NamePrefix, "B">>, text |-> <<"Books">>]>>).lists
(***************************************************************************)
(* The background script (src/background.js).  The file registers two      *)
(* runtime.onMessage listeners: the first (lines 6-45) keeps storedLists   *)
(* and storedProductInfo in module variables, the second is                *)
(* BackgroundCoordinator.handleMessage behind MessageGatekeeper.  The      *)
(* browser calls both for every message, in the order of registration.     *)
(***************************************************************************)
\* CONFIG.MESSAGE_TYPES
AllowedTypes == {"UPDATE_LISTS", "UPDATE_PRODUCT", "GET_STORED_LISTS", "OPEN_SIDEBAR"}

BgTypes == AllowedTypes \cup {"ADD_TO_LIST"}

\* sender.tab.url: absent, not a URL, or a URL with this hostname
TabUrls ==
  {[present |-> FALSE, parses |-> FALSE, hostname |-> <<>>],
   [present |-> TRUE, parses |-> FALSE, hostname |-> <<>>],
   [present |-> TRUE, parses |-> TRUE, hostname |-> <<"www", "amazon", "com">>],
   [present |-> TRUE, parses |-> TRUE, hostname |-> <<"evil", "com">>]}

\* the messages a context can send, with the sender the browser attaches
BgMessages ==
  {m \in [type : BgTypes, lists : {"undefined", "L1", "L2"},
          productInfo : {"undefined", "P1"},
          fromBase : BOOLEAN, tabUrl : TabUrls] :
     /\ (m.type # "UPDATE_LISTS") => m.lists = "undefined"
     /\ (m.type \notin {"UPDATE_LISTS", "UPDATE_PRODUCT"}) => m.productInfo = "undefined"}

BgInit ==
  /\ FlowIdle
  /\ RetryIdle
  /\ ConfirmIdle
  /\ ExtractIdle
  /\ WaitIdle
  /\ ParIdle
  /\ QuickIdle
  /\ FindIdle
  /\ ClickIdle
  /\ FilterIdle
  /\ SettingsIdle
  /\ FormIdle
  /\ DebounceIdle
  /\ bgLegacyLists = "empty"
  /\ bgLegacyInfo = "null"
  /\ bgLists = "empty"
  /\ bgInfo = "null"
  /\ bgMsg = [type |-> "none"]
  /\ bgReply = [kind |-> "none"]
  /\ bgBroadcasts = 0
  /\ bgLastCast = [type |-> "none"]
  /\ bgCount = 0
  /\ bgTrusted = {}

\* sender.url.startsWith(browser.runtime.getURL(''))
IsFromExtension(m) == m.fromBase

\* /(^|\.)amazon\./i.test(new URL(sender.tab.url).hostname), false when there
\* is no tab url or it does not parse
IsFromAmazon(m) ==
  /\ m.tabUrl.present /\ m.tabUrl.parses
  /\ \E i \in 1..(Len(m.tabUrl.hostname) - 1) : m.tabUrl.hostname[i] = "amazon"

\* MessageGatekeeper.validateMessage
ValidateMessage(m) ==
  /\ m.type \in AllowedTypes
  /\ (IsFromExtension(m) \/ IsFromAmazon(m))

\* message.lists || []
ListsOrEmpty(l) == IF l = "undefined" THEN "empty" ELSE l

Status(ok, e) == [kind |-> "status", success |-> ok, error |-> e,
                  lists |-> "na", productInfo |-> "na"]
Stored(l, p) == [kind |-> "stored", success |-> "na", error |-> "na",
                 lists |-> l, productInfo |-> p]

\* what a listener does with a message of an update type or a request for
\* the stored data, given the store it keeps: its store afterwards, the
\* message it sends on (type "none": nothing), and the responses it may give
Handle(m, lists, info) ==
  CASE m.type = "UPDATE_LISTS" ->
         [lists |-> ListsOrEmpty(m.lists), info |-> m.productInfo,
          cast |-> [type |-> "UPDATE_LISTS", lists |-> ListsOrEmpty(m.lists),
                    productInfo |-> m.productInfo],
          replies |-> {Status("true", "none")}]
    [] m.type = "UPDATE_PRODUCT" ->
         [lists |-> lists, info |-> m.productInfo,
          cast |-> [type |-> "UPDATE_PRODUCT", lists |-> "na",
                    productInfo |-> m.productInfo],
          replies |-> {Status("true", "none")}]
    [] m.type = "GET_STORED_LISTS" ->
         [lists |-> lists, info |-> info, cast |-> [type |-> "none"],
          replies |-> {Stored(lists, info)}]
    [] m.type = "OPEN_SIDEBAR" ->
         [lists |-> lists, info |-> info, cast |-> [type |-> "none"],
          replies |-> {Status("true", "none"), Status("false", "sidebar open failed")}]
    [] OTHER ->
         [lists |-> lists, info |-> info, cast |-> [type |-> "none"],
          replies |-> {}]

\* the first listener: no validation
LegacyListener(m) == Handle(m, bgLegacyLists, bgLegacyInfo)

\* BackgroundCoordinator.handleMessage
HandleMessage(m) ==
  IF ~ValidateMessage(m)
  THEN [lists |-> bgLists, info |-> bgInfo, cast |-> [type |-> "none"],
        replies |-> {Status("false", "unauthorized_origin")}]
  ELSE Handle(m, bgLists, bgInfo)

\* a message arrives: both listeners run; the sender receives the response
\* of one of the listeners that returned a promise
BgReceive ==
  \E m \in BgMessages :
    LET a == LegacyListener(m)
        b == HandleMessage(m)
        casts == (IF a.cast.type # "none" THEN <<a.cast>> ELSE <<>>)
                   \o (IF b.cast.type # "none" THEN <<b.cast>> ELSE <<>>)
    IN  /\ bgCount < MaxBgMessages
        /\ bgCount' = bgCount + 1
        /\ bgMsg' = m
        /\ bgLegacyLists' = a.lists
        /\ bgLegacyInfo' = a.info
        /\ bgLists' = b.lists
        /\ bgInfo' = b.info
        /\ bgBroadcasts' = bgBroadcasts + Len(casts)
        /\ bgLastCast' = IF casts = <<>> THEN bgLastCast ELSE casts[Len(casts)]
        /\ bgReply' \in a.replies \cup b.replies
        /\ bgTrusted' =
             IF ValidateMessage(m) /\ m.type = "UPDATE_LISTS"
             THEN bgTrusted \cup {ListsOrEmpty(m.lists), m.productInfo}
             ELSE IF ValidateMessage(m) /\ m.type = "UPDATE_PRODUCT"
             THEN bgTrusted \cup {m.productInfo}
             ELSE bgTrusted
        /\ UNCHANGED notBg

BgNext == BgReceive

SpecBg == BgInit /\ [][BgNext]_vars

\* C38: a message whose type is not allowed, or whose sender is neither an
\* extension page nor a tab on an Amazon host, is answered with success
\* false and unauthorized_origin, changes no stored lists and no stored
\* product info, and is followed by no broadcast; and the answer to
\* GET_STORED_LISTS holds only the initial values or data of UPDATE messages
\* that passed the validation.
C38_UnauthorisedIgnored ==
  /\ [][(bgCount' # bgCount /\ ~ValidateMessage(bgMsg')) =>
          /\ bgReply' = Status("false", "unauthorized_origin")
          /\ <<bgLegacyLists, bgLegacyInfo, bgLists, bgInfo>>'
               = <<bgLegacyLists, bgLegacyInfo, bgLists, bgInfo>>
          /\ bgBroadcasts' = bgBroadcasts]_vars
  /\ [](bgReply.kind = "stored" =>
          /\ bgReply.lists \in bgTrusted \cup {"empty"}
          /\ bgReply.productInfo \in bgTrusted \cup {"null"})
(***************************************************************************)
(* QuickAccessManager (src/sidebar/panel.js): the recently used lists.     *)
(***************************************************************************)
MaxItems == 5      \* CONFIG.QUICK_ACCESS.MAX_ITEMS

QuickIds == {"a", "b", "c", "d", "e", "f"}

\* what earlier sessions left in the storage: nothing, or an array that add
\* wrote
StoredSamples ==
  {<<>>, <<"a", "b">>, <<"a", "b", "c", "d", "e">>}

QuickInit ==
  /\ FlowIdle
  /\ RetryIdle
  /\ ConfirmIdle
  /\ ExtractIdle
  /\ WaitIdle
  /\ ParIdle
  /\ FindIdle
  /\ ClickIdle
  /\ FilterIdle
  /\ SettingsIdle
  /\ FormIdle
  /\ DebounceIdle
  /\ BgIdle
  /\ qaHasStored \in BOOLEAN
  /\ qaStored \in StoredSamples
  /\ ~qaHasStored => qaStored = <<>>
  /\ qaItems = <<>>
  /\ qaPc = "new"
  /\ qaBase = <<>>
  /\ qaHistory = <<>>
  /\ qaEarly = FALSE

\* Array.prototype.slice(0, n)
Slice(items, n) == SubSeq(items, 1, IF Len(items) < n THEN Len(items) ELSE n)

Unfiltered(items, itemId) == items

\* this.items.filter(id => id !== itemId)
Without(items, itemId) == SelectSeq(items, LAMBDA id : id # itemId)

\* filter, unshift, slice
Added(items, itemId) == Slice(<<itemId>> \o Without(items, itemId), MaxItems)

\* load(), up to its await
QuickLoad ==
  /\ qaPc = "new"
  /\ qaPc' = "loading"
  /\ UNCHANGED <<qaHasStored, qaStored, qaItems, qaBase, qaHistory, qaEarly>>
  /\ UNCHANGED notQuick

\* storage.get settles (undefined when it fails or nothing is stored);
\* if (stored && Array.isArray(stored)) this.items = stored.slice(0, maxItems)
QuickLoadResumes ==
  /\ qaPc = "loading"
  /\ \E failed \in BOOLEAN :
       qaItems' = IF qaHasStored /\ ~failed THEN Slice(qaStored, MaxItems)
                  ELSE qaItems
  /\ qaPc' = "ready"
  /\ qaBase' = qaItems'
  /\ qaHistory' = <<>>
  /\ UNCHANGED <<qaHasStored, qaStored, qaEarly>>
  /\ UNCHANGED notQuick

\* add(itemId), with its storage.set, which may fail
QuickAdd ==
  /\ Len(qaHistory) < MaxQuickAdds
  /\ \E itemId \in QuickIds, saved \in BOOLEAN :
       /\ qaItems' = Added(qaItems, itemId)
       /\ qaHistory' = Append(qaHistory, itemId)
       /\ IF saved
          THEN qaHasStored' = TRUE /\ qaStored' = qaItems'
          ELSE UNCHANGED <<qaHasStored, qaStored>>
  /\ qaEarly' = (qaEarly \/ qaPc # "ready")
  /\ UNCHANGED <<qaPc, qaBase>>
  /\ UNCHANGED notQuick

QuickNext == QuickLoad \/ QuickLoadResumes \/ QuickAdd

SpecQuick == QuickInit /\ [][QuickNext]_vars

RECURSIVE Reverse(_)
Reverse(q) == IF q = <<>> THEN <<>> ELSE Reverse(Tail(q)) \o <<Head(q)>>

\* the first occurrence of every element, in order
RECURSIVE FirstOccurrences(_, _)
FirstOccurrences(q, seen) ==
  IF q = <<>> THEN <<>>
  ELSE IF Head(q) \in seen THEN FirstOccurrences(Tail(q), seen)
  ELSE <<Head(q)>> \o FirstOccurrences(Tail(q), seen \cup {Head(q)})

\* C39: after add operations that follow the load, the recent items hold no
\* id twice, are at most maxItems, begin with the id added last, and are the
\* ids in the order of their last add, the latest first, followed by the
\* loaded ids that were not added since, cut to maxItems.
C39_RecentItems ==
  (qaPc = "ready" /\ ~qaEarly /\ qaHistory # <<>>) =>
    /\ \A i, j \in 1..Len(qaItems) : i # j => qaItems[i] # qaItems[j]
    /\ Len(qaItems) <= MaxItems
    /\ qaItems[1] = qaHistory[Len(qaHistory)]
    /\ LET byRecency == FirstOccurrences(Reverse(qaHistory) \o qaBase, {})
       IN  qaItems = SubSeq(byRecency, 1, Len(qaItems))
             /\ Len(qaItems) = IF Len(byRecency) < MaxItems THEN Len(byRecency)
                               ELSE MaxItems

\* a full list: a new id pushed the oldest out, then a stored id was added again
C39_Witness ==
  /\ qaPc = "ready" /\ ~qaEarly
  /\ qaBase = <<"a", "b", "c", "d", "e">>
  /\ qaHistory = <<"f", "c">>
  /\ qaItems = <<"c", "f", "a", "b", "d">>
====
